---- MODULE Spec2Model ----
(***************************************************************************)
(* Model of ghca (git-contributor-insights): the ordered worker pool of    *)
(* pkg/git, the vendor classifier of pkg/config, and the metrics fold, the *)
(* timeline and the ranking helpers of pkg/analyzer.                       *)
(*                                                                         *)
(* Go strings are modelled as sequences of one-character strings, so that  *)
(* strings.ToLower, strings.Split, strings.TrimSpace and strings.Contains  *)
(* are computed character by character.                                    *)
(***************************************************************************)
EXTENDS Integers, Sequences, FiniteSets, TLC

VARIABLES
    \* ---- pkg/config: Config.Classify ----
    Vendors,        \* Config.Vendors: category name -> VendorConfig
    email,          \* arguments of the Classify calls
    company,
    username,
    returned,       \* values returned by the Classify calls made so far
    \* ---- pkg/git: Fetcher.processCommitsConcurrent ----
    commits,        \* the input slice: [sha, statsOk, committer, author] per commit
    workersArg,     \* the workers argument as passed by the caller
    workers,        \* the worker count after normalisation
    jobs,           \* buffered channel of jobs (FIFO of indexes)
    jobsClosed,
    results,        \* buffered channel of result structs
    resultsClosed,
    wg,             \* sync.WaitGroup counter
    wpc,            \* per worker: "idle" | "recv" | "work" | "done"
    wjob,           \* per worker: the job it holds (0 = none)
    sendI,          \* sender goroutine: next index to send (0 = not started)
    mpc,            \* coordinating thread: position in runAnalyze / the pool
    commitData,     \* the index-addressed slot array
    filteredData,   \* the slice returned by the pool
    poolErr,        \* the error returned by the pool ("none" = not returned yet)
    taken,          \* history: per index, the workers that received it
    collected,      \* history: the indexes of the results the collector received
    \* ---- pkg/analyzer: Analyzer.Analyze ----
    records,        \* the commits handed to the first Analyze call
    folding,        \* the slice the running Analyze call iterates over
    apc,            \* "idle" | "loop" | "done" (returned)
    aIdx,           \* loop index of the running call
    vendorMetrics,  \* map category -> VendorMetrics of the running call
    allContributors,
    minDate,
    maxDate,
    classifiedAs,   \* history: category resolved for each folded commit
    analyses,       \* RepositoryAnalysis values returned so far
    \* ---- pkg/analyzer: getPeriodKey / getPeriodRange ----
    pDate,          \* the timestamp handed to getPeriodKey
    pBreakdown,     \* the breakdown type of both calls
    pPeriod,        \* the key returned by getPeriodKey (<<>> = not called yet)
    pRange,         \* the window returned by getPeriodRange (<<>> = not called yet)
    \* ---- pkg/analyzer: AnalyzeTimeline ----
    tCommits,       \* the commits handed to AnalyzeTimeline
    breakdownType,
    tpc,            \* "idle" | "period" | "loop" | "dates" | "returned" | "panic"
    periodMap,      \* period key -> commits of that period
    periods,        \* the sorted period keys
    pIdx,           \* index of the period being folded
    cIdx,           \* index of the commit being folded within the period
    periodMetrics,  \* the vendorMetrics map of the period being folded
    totalCommits,   \* the totalCommits counter of the period being folded
    breakdowns,     \* the TimeBreakdown values appended so far
    timeline,       \* the TimelineAnalysis values returned
    percentages,    \* GetVendorPercentage calls made on the returned periods
    \* ---- pkg/analyzer: GroupVendors / GetSortedVendors ----
    gMetrics,       \* the vendorMetrics map handed to the ranking helpers
    topN,
    sortBy,         \* the "by" argument of GetSortedVendors
    reverse,
    groups,         \* the groups returned by GroupVendors (<<>> before the call)
    sorted,         \* the names returned by GetSortedVendors
    gpc,            \* the ranking helpers called so far
    \* ---- cmd: runAnalyze ----
    rpc,            \* where runAnalyze is after FetchCommits returned
    fetched,        \* the commits FetchCommits returned to runAnalyze
    \* ---- pkg/git: FetchCommits ----
    history,        \* the commits of the log iterator, in log order
    since,          \* the since bound (Nil when not given)
    until,          \* the until bound (Nil when not given)
    fpc,            \* where FetchCommits is
    \* ---- pkg/tui: Spinner ----
    message,        \* Spinner.message
    stopChan,       \* Spinner.stopChan: "open" or "closed"
    closes,         \* the number of close(s.stopChan) executed
    swg,            \* the counter of Spinner.wg
    mu,             \* the holder of Spinner.mu: caller c, goroutine g as -g, 0 if free
    stopped,        \* Spinner.stopped
    cpc,            \* where each caller of the Spinner's methods is
    carg,           \* the argument of each caller's UpdateMessage
    ccalls,         \* the number of calls each caller has made
    anim,           \* where each animation goroutine is, in order of launch
    lastFrame,      \* the message of the last frame written to the writer
    stopReturned,   \* some call of Stop has returned
    lateFrame       \* a frame was written after some call of Stop had returned

classifyVars == <<Vendors, email, company, username, returned>>
poolVars == <<commits, workersArg, workers, jobs, jobsClosed, results, resultsClosed,
              wg, wpc, wjob, sendI, mpc, commitData, filteredData, poolErr, taken,
              collected>>
analyzeVars == <<records, folding, apc, aIdx, vendorMetrics, allContributors,
                 minDate, maxDate, classifiedAs, analyses>>
periodVars == <<pDate, pBreakdown, pPeriod, pRange>>
timelineVars == <<tCommits, breakdownType, tpc, periodMap, periods, pIdx, cIdx,
                  periodMetrics, totalCommits, breakdowns, timeline, percentages>>
groupVars == <<gMetrics, topN, sortBy, reverse, groups, sorted, gpc>>
restVars == <<periodVars, timelineVars, groupVars>>
runVars == <<rpc, fetched>>
fetchVars == <<history, since, until, fpc>>
spinVars == <<message, stopChan, closes, swg, mu, stopped, cpc, carg, ccalls, anim,
              lastFrame, stopReturned, lateFrame>>
lateVars == <<runVars, fetchVars, spinVars>>
vars == <<classifyVars, poolVars, analyzeVars, restVars, lateVars>>

(***************************************************************************)
(* Strings                                                                 *)
(***************************************************************************)
UpperLetters == <<"A","B","C","D","E","F","G","H","I","J","K","L","M",
                  "N","O","P","Q","R","S","T","U","V","W","X","Y","Z">>
LowerLetters == <<"a","b","c","d","e","f","g","h","i","j","k","l","m",
                  "n","o","p","q","r","s","t","u","v","w","x","y","z">>

LowerChar(c) ==
    IF \E i \in 1..26 : UpperLetters[i] = c
    THEN LowerLetters[CHOOSE i \in 1..26 : UpperLetters[i] = c]
    ELSE c

\* strings.ToLower
ToLower(s) == [i \in 1..Len(s) |-> LowerChar(s[i])]

\* unicode.IsSpace on the characters used here
IsSpace(c) == c \in {" ", "\t", "\n"}

\* strings.TrimSpace
TrimSpace(s) ==
    LET keep == {i \in 1..Len(s) : ~IsSpace(s[i])}
    IN  IF keep = {} THEN <<>>
        ELSE SubSeq(s, CHOOSE i \in keep : \A j \in keep : i <= j,
                       CHOOSE i \in keep : \A j \in keep : j <= i)

\* strings.Contains
Contains(s, substr) ==
    \E i \in 0..(Len(s) - Len(substr)) : SubSeq(s, i + 1, i + Len(substr)) = substr

\* strings.Split(s, sep) for a one-character separator
Split(s, sep) ==
    LET RECURSIVE go(_, _, _)
        go(i, cur, acc) ==
            IF i > Len(s) THEN Append(acc, cur)
            ELSE IF s[i] = sep THEN go(i + 1, <<>>, Append(acc, cur))
            ELSE go(i + 1, Append(cur, s[i]), acc)
    IN  go(1, <<>>, <<>>)

\* string literals of the source
EmptyStr == <<>>
community == <<"c","o","m","m","u","n","i","t","y">>
unknown == <<"u","n","k","n","o","w","n">>
invalidEmail == <<"i","n","v","a","l","i","d","-","e","m","a","i","l">>

com == <<".","c","o","m">>

personalDomains == {
    <<"g","m","a","i","l">> \o com,
    <<"y","a","h","o","o">> \o com,
    <<"h","o","t","m","a","i","l">> \o com,
    <<"o","u","t","l","o","o","k">> \o com,
    <<"p","r","o","t","o","n","m","a","i","l">> \o com,
    <<"i","c","l","o","u","d">> \o com,
    <<"m","a","i","l">> \o com,
    <<"a","o","l">> \o com,
    <<"y","a","n","d","e","x">> \o com,
    <<"q","q">> \o com,
    <<"1","6","3">> \o com,
    <<"1","2","6">> \o com,
    <<"s","i","n","a">> \o com,
    <<"l","i","v","e">> \o com,
    <<"m","s","n">> \o com,
    <<"m","e">> \o com,
    <<"m","a","c">> \o com,
    <<"g","o","o","g","l","e","m","a","i","l">> \o com,
    <<"y","a","h","o","o",".","c","o",".","u","k">>,
    <<"y","a","h","o","o",".","c","o",".","j","p">>,
    <<"f","a","s","t","m","a","i","l">> \o com,
    <<"z","o","h","o">> \o com }

(***************************************************************************)
(* pkg/config                                                              *)
(***************************************************************************)
\* AutoClassifyByDomain comparing the domain as written, not lower-cased
AutoClassifyAsWritten(e) ==
    IF e = EmptyStr THEN unknown
    ELSE LET parts == Split(e, "@")
         IN  IF Len(parts) # 2 THEN invalidEmail
             ELSE IF parts[2] \in personalDomains THEN community
                  ELSE <<"@">> \o parts[2]

\* AutoClassifyByDomain
AutoClassifyByDomain(e) ==
    IF e = EmptyStr THEN unknown
    ELSE LET parts == Split(e, "@")
         IN  IF Len(parts) # 2 THEN invalidEmail
             ELSE LET domain == ToLower(parts[2])
                  IN  IF domain \in personalDomains THEN community
                      ELSE <<"@">> \o domain

\* "for vendorName, vendor := range c.Vendors": Go leaves the iteration order of
\* a map unspecified, so every loop over Vendors runs in some order of its keys.
RangeOrders(V) ==
    {o \in [1..Cardinality(DOMAIN V) -> DOMAIN V] :
        \A i, j \in DOMAIN o : i # j => o[i] # o[j]}

\* The vendor name returned by a range loop that visits Vendors in order o and
\* returns at the first vendor whose inner loop finds a match ("matching" is the
\* set of those vendors); "" when the loop runs to its end.
FirstMatch(o, matching) ==
    LET hits == {i \in DOMAIN o : o[i] \in matching}
    IN  IF hits = {} THEN EmptyStr
        ELSE o[CHOOSE i \in hits : \A j \in hits : i <= j]

\* Config.ClassifyByEmail: the values a call can return, one per iteration order
ClassifyByEmail(V, e) ==
    IF e = EmptyStr THEN {EmptyStr}
    ELSE LET parts == Split(e, "@")
         IN  IF Len(parts) # 2 THEN {EmptyStr}
             ELSE LET domain == ToLower(parts[2])
                      matching == {v \in DOMAIN V :
                                      \E i \in 1..Len(V[v].Domains) :
                                          ToLower(V[v].Domains[i]) = domain}
                  IN  {FirstMatch(o, matching) : o \in RangeOrders(V)}

\* Config.ClassifyByCompany: the values a call can return
ClassifyByCompany(V, c) ==
    IF c = EmptyStr THEN {EmptyStr}
    ELSE LET companyLower == ToLower(TrimSpace(c))
             matching == {v \in DOMAIN V :
                             \E i \in 1..Len(V[v].GithubCompanies) :
                                 Contains(companyLower,
                                          ToLower(V[v].GithubCompanies[i]))}
         IN  {FirstMatch(o, matching) : o \in RangeOrders(V)}

\* Config.ClassifyByUsername: the values a call can return
ClassifyByUsername(V, u) ==
    IF u = EmptyStr THEN {EmptyStr}
    ELSE LET usernameLower == ToLower(u)
             matching == {v \in DOMAIN V :
                             \E i \in 1..Len(V[v].Usernames) :
                                 ToLower(V[v].Usernames[i]) = usernameLower}
         IN  {FirstMatch(o, matching) : o \in RangeOrders(V)}

\* Config.Classify trying the email domain before the username
ClassifyEmailFirst(V, e, c, u) ==
    IF Cardinality(DOMAIN V) = 0 THEN {AutoClassifyByDomain(e)}
    ELSE LET byUsername == ClassifyByUsername(V, u)
             byEmail == ClassifyByEmail(V, e)
             byCompany == ClassifyByCompany(V, c)
         IN  (byEmail \ {EmptyStr}) \cup
             IF EmptyStr \notin byEmail THEN {}
             ELSE (byUsername \ {EmptyStr}) \cup
                  IF EmptyStr \notin byUsername THEN {}
                  ELSE (byCompany \ {EmptyStr}) \cup
                       IF EmptyStr \notin byCompany THEN {}
                       ELSE {community}

\* Config.Classify without the switch to the auto-classifier
ClassifyCascadeOnly(V, e, c, u) ==
    LET byUsername == ClassifyByUsername(V, u)
        byEmail == ClassifyByEmail(V, e)
        byCompany == ClassifyByCompany(V, c)
    IN  (byUsername \ {EmptyStr}) \cup
        IF EmptyStr \notin byUsername THEN {}
        ELSE (byEmail \ {EmptyStr}) \cup
             IF EmptyStr \notin byEmail THEN {}
             ELSE (byCompany \ {EmptyStr}) \cup
                  IF EmptyStr \notin byCompany THEN {}
                  ELSE {community}

\* Config.Classify: the values a call can return. Each "if vendor := ...;
\* vendor != "" { return vendor }" returns the non-empty results of its call and
\* falls through to the next statement on the result "".
Classify(V, e, c, u) ==
    IF Cardinality(DOMAIN V) = 0 THEN {AutoClassifyByDomain(e)}
    ELSE LET byUsername == ClassifyByUsername(V, u)
             byEmail == ClassifyByEmail(V, e)
             byCompany == ClassifyByCompany(V, c)
         IN  (byUsername \ {EmptyStr}) \cup
             IF EmptyStr \notin byUsername THEN {}
             ELSE (byEmail \ {EmptyStr}) \cup
                  IF EmptyStr \notin byEmail THEN {}
                  ELSE (byCompany \ {EmptyStr}) \cup
                       IF EmptyStr \notin byCompany THEN {}
                       ELSE {community}

(***************************************************************************)
(* Inputs of the classifier                                                *)
(***************************************************************************)
acme == <<"a","c","m","e">>
beta == <<"b","e","t","a">>
gamma == <<"g","a","m","m","a">>

\* category names of a configuration file
VendorNames == {acme, beta, gamma}

\* the lists a VendorConfig can hold
DomainLists == {<<>>, << <<"X",".","i","o">> >>}
CompanyLists == {<<>>, << <<" ","I","n","c">> >>, << <<>> >>}
UsernameLists == {<<>>, << <<"B","o","b">> >>, << <<>> >>}

\* VendorConfig values: at most one of the three lists is filled, or all are
VendorConfigs ==
    {vc \in [Domains : DomainLists, GithubCompanies : CompanyLists,
             Usernames : UsernameLists] :
        LET filled == (IF vc.Domains # <<>> THEN 1 ELSE 0)
                      + (IF vc.GithubCompanies # <<>> THEN 1 ELSE 0)
                      + (IF vc.Usernames # <<>> THEN 1 ELSE 0)
        IN  filled <= 1 \/ filled = 3}

\* the most categories a configuration holds
MaxVendors == 2

Configs ==
    UNION {[names -> VendorConfigs] :
              names \in {n \in SUBSET VendorNames : Cardinality(n) <= MaxVendors}}

Emails == {EmptyStr,
           <<"b","o","b">>,
           <<"a","@","x",".","I","O">>,
           <<"a","@","b","@","x",".","i","o">>,
           <<"a","@">>,
           <<"a","@","M","E",".","c","o","m">>}
Companies == {EmptyStr, <<" ","i","n","c">>, <<"A","C","M","E"," ","i","n","c"," ">>}
Usernames == {EmptyStr, <<"b","O","B">>, <<"a","l">>}

\* the most Classify calls made on one configuration
MaxCalls == 2

(***************************************************************************)
(* Idle values of the parts                                                *)
(***************************************************************************)
ClassifyIdle ==
    /\ Vendors = <<>>
    /\ email = EmptyStr
    /\ company = EmptyStr
    /\ username = EmptyStr
    /\ returned = <<>>

PoolIdle ==
    /\ commits = <<>>
    /\ workersArg = 0
    /\ workers = 0
    /\ jobs = <<>>
    /\ jobsClosed = FALSE
    /\ results = <<>>
    /\ resultsClosed = FALSE
    /\ wg = 0
    /\ wpc = <<>>
    /\ wjob = <<>>
    /\ sendI = 0
    /\ mpc = "idle"
    /\ commitData = <<>>
    /\ filteredData = <<>>
    /\ poolErr = "none"
    /\ taken = <<>>
    /\ collected = <<>>

\* the zero time.Time (January 1, year 1)
ZeroTime == [Year |-> 1, Month |-> 1, Day |-> 1]

AnalyzeIdle ==
    /\ records = <<>>
    /\ folding = <<>>
    /\ apc = "idle"
    /\ aIdx = 0
    /\ vendorMetrics = <<>>
    /\ allContributors = {}
    /\ minDate = ZeroTime
    /\ maxDate = ZeroTime
    /\ classifiedAs = <<>>
    /\ analyses = <<>>

PeriodIdle ==
    /\ pDate = ZeroTime
    /\ pBreakdown = ""
    /\ pPeriod = <<>>
    /\ pRange = <<>>

TimelineIdle ==
    /\ tCommits = <<>>
    /\ breakdownType = ""
    /\ tpc = "idle"
    /\ periodMap = <<>>
    /\ periods = <<>>
    /\ pIdx = 0
    /\ cIdx = 0
    /\ periodMetrics = <<>>
    /\ totalCommits = 0
    /\ breakdowns = <<>>
    /\ timeline = <<>>
    /\ percentages = <<>>

GroupIdle ==
    /\ gMetrics = <<>>
    /\ topN = 0
    /\ sortBy = ""
    /\ reverse = FALSE
    /\ groups = <<>>
    /\ sorted = <<>>
    /\ gpc = {}

\* the parts added to the three above
RestIdle == PeriodIdle /\ TimelineIdle /\ GroupIdle

RunIdle ==
    /\ rpc = "idle"
    /\ fetched = <<>>

FetchIdle ==
    /\ history = <<>>
    /\ since = [nil |-> TRUE]
    /\ until = [nil |-> TRUE]
    /\ fpc = "idle"

\* the callers of one Spinner
SpinCallers == {1, 2}

\* the Spinner as NewSpinner returns it, no method called yet
SpinIdle ==
    /\ message = "a"
    /\ stopChan = "open"
    /\ closes = 0
    /\ swg = 0
    /\ mu = 0
    /\ stopped = FALSE
    /\ cpc = [c \in SpinCallers |-> "idle"]
    /\ carg = [c \in SpinCallers |-> ""]
    /\ ccalls = [c \in SpinCallers |-> 0]
    /\ anim = <<>>
    /\ lastFrame = "none"
    /\ stopReturned = FALSE
    /\ lateFrame = FALSE

LateIdle == RunIdle /\ FetchIdle /\ SpinIdle

(***************************************************************************)
(* Calls of Config.Classify on a loaded configuration                      *)
(***************************************************************************)
ClassifyInit ==
    /\ Vendors \in Configs
    /\ email \in Emails
    /\ company \in Companies
    /\ username \in Usernames
    /\ returned = <<>>
    /\ PoolIdle
    /\ LateIdle
    /\ AnalyzeIdle
    /\ RestIdle

\* one call c.Classify(email, company, username)
CallClassify ==
    /\ Len(returned) < MaxCalls
    /\ \E r \in Classify(Vendors, email, company, username) :
           returned' = Append(returned, r)
    /\ UNCHANGED <<lateVars, restVars, Vendors, email, company, username, poolVars, analyzeVars>>

ClassifyNext == CallClassify

SpecClassify == ClassifyInit /\ [][ClassifyNext]_vars

(***************************************************************************)
(* Claims about the classifier                                             *)
(***************************************************************************)
\* number of '@' in e, and the part of e after its first '@'
AtCount(e) == Cardinality({i \in 1..Len(e) : e[i] = "@"})
DomainOf(e) ==
    LET at == CHOOSE i \in 1..Len(e) : e[i] = "@" /\ \A j \in 1..(i - 1) : e[j] # "@"
    IN  SubSeq(e, at + 1, Len(e))
EqualFold(a, b) == ToLower(a) = ToLower(b)
HasPrefixAt(s) == Len(s) >= 1 /\ s[1] = "@"

\* categories that list the username / the email's domain / a fragment of the
\* organization, read literally from the rule lists
ListsUsername(u) ==
    {v \in DOMAIN Vendors : \E i \in 1..Len(Vendors[v].Usernames) :
        EqualFold(Vendors[v].Usernames[i], u)}
ListsDomain(e) ==
    {v \in DOMAIN Vendors : AtCount(e) = 1 /\
        \E i \in 1..Len(Vendors[v].Domains) :
            EqualFold(Vendors[v].Domains[i], DomainOf(e))}
ListsFragmentOf(org) ==
    {v \in DOMAIN Vendors : \E i \in 1..Len(Vendors[v].GithubCompanies) :
        Contains(ToLower(org), ToLower(Vendors[v].GithubCompanies[i]))}

\* the cascade over three sets of matching categories
CascadeAllows(r, U, D, O) ==
    IF U # {} THEN r \in U
    ELSE IF D # {} THEN r \in D
    ELSE IF O # {} THEN r \in O
    ELSE r = community

\* C5 as stated: with at least one category, Classify returns a category that
\* lists the username, else one that lists the email's domain, else one with a
\* fragment that is a substring of the organization, else "community".
C5_AsStated ==
    DOMAIN Vendors # {} =>
        \A k \in 1..Len(returned) :
            CascadeAllows(returned[k], ListsUsername(username), ListsDomain(email),
                          ListsFragmentOf(company))

\* C5 amended: with at least one category (all of them named), Classify returns
\* a category that lists the non-empty username (case-insensitive), else a
\* category that lists the domain of an email with exactly one '@', else, for a
\* non-empty organization, a category with a fragment that is a case-insensitive
\* substring of the organization with surrounding whitespace trimmed, else
\* "community"; a higher-priority match is never overridden.
C5_Cascade ==
    DOMAIN Vendors # {} =>
        \A k \in 1..Len(returned) :
            CascadeAllows(returned[k],
                          IF username = EmptyStr THEN {} ELSE ListsUsername(username),
                          ListsDomain(email),
                          IF company = EmptyStr THEN {}
                          ELSE ListsFragmentOf(TrimSpace(company)))

\* a call where a username rule and a domain rule of different categories both
\* match, and the username's category was returned
C5_Witness ==
    /\ username # EmptyStr
    /\ ListsUsername(username) # {}
    /\ ListsDomain(email) # {}
    /\ ListsUsername(username) \cap ListsDomain(email) = {}
    /\ Len(returned) >= 1
    /\ returned[1] \in ListsUsername(username)

\* C6: with zero categories Classify equals AutoClassifyByDomain(email) whatever
\* the organization and username; with at least one category the result is a
\* configured category name or "community", never a label of the auto-classifier.
C6_ModeSwitch ==
    \A k \in 1..Len(returned) :
        /\ DOMAIN Vendors = {} => returned[k] = AutoClassifyByDomain(email)
        /\ DOMAIN Vendors # {} =>
              /\ returned[k] \in DOMAIN Vendors \cup {community}
              /\ returned[k] \notin {unknown, invalidEmail}
              /\ ~HasPrefixAt(returned[k])

\* a call in auto mode with a username and an organization given, answered with
\* an "@domain" label
C6_Witness ==
    /\ DOMAIN Vendors = {}
    /\ company # EmptyStr
    /\ username # EmptyStr
    /\ Len(returned) >= 1
    /\ HasPrefixAt(returned[1])

\* C7: on an unchanged configuration, calls of Classify with identical arguments
\* return the same category.
C7_Deterministic ==
    \A j, k \in 1..Len(returned) : returned[j] = returned[k]

\* C8: AutoClassifyByDomain returns "unknown" exactly for the empty email,
\* "invalid-email" exactly for a non-empty email without exactly one '@',
\* "community" exactly when the lower-cased domain is a personal-webmail domain,
\* and otherwise "@" followed by the lower-cased domain.
C8_AutoClassify ==
    DOMAIN Vendors = {} =>
        \A k \in 1..Len(returned) :
            LET r == returned[k]
                isEmpty == email = EmptyStr
                isMalformed == email # EmptyStr /\ AtCount(email) # 1
                isPersonal == AtCount(email) = 1
                              /\ ToLower(DomainOf(email)) \in personalDomains
                isOther == AtCount(email) = 1
                           /\ ToLower(DomainOf(email)) \notin personalDomains
            IN  /\ Cardinality({c \in {"e", "m", "p", "o"} :
                        \/ c = "e" /\ isEmpty
                        \/ c = "m" /\ isMalformed
                        \/ c = "p" /\ isPersonal
                        \/ c = "o" /\ isOther}) = 1
                /\ (r = unknown) <=> isEmpty
                /\ (r = invalidEmail) <=> isMalformed
                /\ (r = community) <=> isPersonal
                /\ HasPrefixAt(r) <=> isOther
                /\ isOther => r = <<"@">> \o ToLower(DomainOf(email))

\* an auto-mode call on an upper-case personal-webmail address
C8_Witness ==
    /\ DOMAIN Vendors = {}
    /\ AtCount(email) = 1
    /\ DomainOf(email) # ToLower(DomainOf(email))
    /\ Len(returned) >= 1
    /\ returned[1] = community

(***************************************************************************)
(* pkg/git: Fetcher.processCommitsConcurrent                               *)
(*                                                                         *)
(* Slice positions are 1-based here (Go index i is position i + 1).        *)
(***************************************************************************)
\* the most commits in the input slice, and the largest positive worker count
MaxCommits == 3
MaxWorkers == 2

\* "workers = 4 // default"
DefaultWorkers == 4

Nil == [nil |-> TRUE]

\* Fetcher.processCommit: (data, nil), or (nil, err) when commit.Stats() fails;
\* "SHA: commit.Hash.String(), ..., Date: commit.Author.When"
processCommit(commit) ==
    IF commit.statsOk
    THEN [data |-> [SHA |-> commit.sha, Date |-> commit.author], err |-> FALSE]
    ELSE [data |-> Nil, err |-> TRUE]

\* "if workers <= 0 { workers = 4 }"
NormalizeWorkers(w) == IF w <= 0 THEN DefaultWorkers ELSE w

\* a job channel that hands the same job to every receiver
RecvKeep(ch) == ch

\* what is left in a channel after a receive took its head
RecvRest(ch) == Tail(ch)

\* the waiter closing the results without waiting for the workers
WaitReturnsEarly(counter) == TRUE

\* a waiter that is never woken
WaitReturnsNever(counter) == counter < 0

\* the waiter returning while one worker is still running
WaitReturnsBeforeLast(counter) == counter <= 1

\* wg.Wait() returns when the WaitGroup counter is zero
WaitReturns(counter) == counter = 0

\* the collector filling the slots in order of arrival
StoreByArrival(slots, r) ==
    LET free == {i \in 1..Len(slots) : slots[i] = Nil}
    IN  IF free = {} THEN slots
        ELSE [slots EXCEPT ![CHOOSE i \in free : \A j \in free : i <= j] = r.data]

\* "commitData[r.index] = r.data"
StoreResult(slots, r) == [slots EXCEPT ![r.index] = r.data]

\* a filter loop that stops at the first nil slot
FilterUntilNil(slots) ==
    LET nils == {i \in 1..Len(slots) : slots[i] = Nil}
    IN  IF nils = {} THEN slots
        ELSE SubSeq(slots, 1, (CHOOSE i \in nils : \A j \in nils : i <= j) - 1)

\* "for _, data := range commitData { if data != nil { append } }"
FilterNil(slots) == SelectSeq(slots, LAMBDA d : d # Nil)

\* the committer and author time of the commits handed to the pool directly
PoolWhen == [Year |-> 2024, Month |-> 1, Day |-> 15, Sec |-> 43200]

PoolInit ==
    /\ \E n \in 0..MaxCommits :
         commits \in {cs \in [1..n -> [sha : 1..n, statsOk : BOOLEAN,
                                       committer : {PoolWhen}, author : {PoolWhen}]] :
                         \A i \in 1..n : cs[i].sha = i}
    /\ workersArg \in 0..MaxWorkers
    /\ workers = 0
    /\ jobs = <<>>
    /\ jobsClosed = FALSE
    /\ results = <<>>
    /\ resultsClosed = FALSE
    /\ wg = 0
    /\ wpc = <<>>
    /\ wjob = <<>>
    /\ sendI = 0
    /\ mpc = "call"
    /\ commitData = <<>>
    /\ filteredData = <<>>
    /\ poolErr = "none"
    /\ taken = [i \in 1..Len(commits) |-> <<>>]
    /\ collected = <<>>
    /\ ClassifyIdle
    /\ AnalyzeIdle
    /\ RestIdle
    /\ LateIdle

\* the coordinating thread up to the collect loop: normalise the worker count,
\* make both channels, start the workers (wg.Add(1) each), the job sender and the
\* waiter, and make the slot array
PoolStart ==
    /\ mpc = "call"
    /\ workers' = NormalizeWorkers(workersArg)
    /\ wg' = workers'
    /\ wpc' = [w \in 1..workers' |-> "recv"]
    /\ wjob' = [w \in 1..workers' |-> 0]
    /\ sendI' = 1
    /\ commitData' = [i \in 1..Len(commits) |-> Nil]
    /\ mpc' = "collect"
    /\ UNCHANGED <<lateVars, restVars, commits, workersArg, jobs, jobsClosed, results, resultsClosed,
                   filteredData, poolErr, taken, collected, classifyVars, analyzeVars>>

\* job sender: "jobs <- {index: i, commit: commit}" (cap(jobs) = len(commits))
SendJob ==
    /\ sendI \in 1..Len(commits)
    /\ ~jobsClosed
    /\ Len(jobs) < Len(commits)
    /\ jobs' = Append(jobs, sendI)
    /\ sendI' = sendI + 1
    /\ UNCHANGED <<lateVars, restVars, commits, workersArg, workers, jobsClosed, results, resultsClosed,
                   wg, wpc, wjob, mpc, commitData, filteredData, poolErr, taken,
                   collected, classifyVars, analyzeVars>>

\* job sender: "close(jobs)" after the loop
CloseJobs ==
    /\ sendI = Len(commits) + 1
    /\ ~jobsClosed
    /\ jobsClosed' = TRUE
    /\ UNCHANGED <<lateVars, restVars, commits, workersArg, workers, jobs, results, resultsClosed, wg,
                   wpc, wjob, sendI, mpc, commitData, filteredData, poolErr, taken,
                   collected, classifyVars, analyzeVars>>

\* worker w: "for job := range jobs" receives a job
WorkerRecv(w) ==
    /\ wpc[w] = "recv"
    /\ jobs # <<>>
    /\ wjob' = [wjob EXCEPT ![w] = Head(jobs)]
    /\ jobs' = RecvRest(jobs)
    /\ wpc' = [wpc EXCEPT ![w] = "work"]
    /\ taken' = [taken EXCEPT ![Head(jobs)] = Append(@, w)]
    /\ UNCHANGED <<lateVars, restVars, commits, workersArg, workers, jobsClosed, results, resultsClosed,
                   wg, sendI, mpc, commitData, filteredData, poolErr, collected,
                   classifyVars, analyzeVars>>

\* worker w: processCommit, then "results <- result{index, data, err}"
WorkerProcess(w) ==
    /\ wpc[w] = "work"
    /\ Len(results) < Len(commits)
    /\ LET out == processCommit(commits[wjob[w]])
       IN  results' = Append(results,
                             [index |-> wjob[w], data |-> out.data, err |-> out.err])
    /\ wjob' = [wjob EXCEPT ![w] = 0]
    /\ wpc' = [wpc EXCEPT ![w] = "recv"]
    /\ UNCHANGED <<lateVars, restVars, commits, workersArg, workers, jobs, jobsClosed, resultsClosed, wg,
                   sendI, mpc, commitData, filteredData, poolErr, taken, collected,
                   classifyVars, analyzeVars>>

\* worker w: the range loop ends on the closed, drained channel; "defer wg.Done()"
WorkerExit(w) ==
    /\ wpc[w] = "recv"
    /\ jobs = <<>>
    /\ jobsClosed
    /\ wpc' = [wpc EXCEPT ![w] = "done"]
    /\ wg' = wg - 1
    /\ UNCHANGED <<lateVars, restVars, commits, workersArg, workers, jobs, jobsClosed, results,
                   resultsClosed, wjob, sendI, mpc, commitData, filteredData, poolErr,
                   taken, collected, classifyVars, analyzeVars>>

\* waiter: "wg.Wait(); close(results)"
CloseResults ==
    /\ mpc = "collect"
    /\ ~resultsClosed
    /\ WaitReturns(wg)
    /\ resultsClosed' = TRUE
    /\ UNCHANGED <<lateVars, restVars, commits, workersArg, workers, jobs, jobsClosed, results, wg, wpc,
                   wjob, sendI, mpc, commitData, filteredData, poolErr, taken,
                   collected, classifyVars, analyzeVars>>

\* coordinating thread: one iteration of "for r := range results"
Collect ==
    /\ mpc = "collect"
    /\ results # <<>>
    /\ LET r == Head(results)
       IN  /\ commitData' = IF r.err THEN commitData ELSE StoreResult(commitData, r)
           /\ collected' = Append(collected, r.index)
    /\ results' = Tail(results)
    /\ UNCHANGED <<lateVars, restVars, commits, workersArg, workers, jobs, jobsClosed, resultsClosed, wg,
                   wpc, wjob, sendI, mpc, filteredData, poolErr, taken, classifyVars,
                   analyzeVars>>

\* coordinating thread: the range loop ends on the closed, drained channel; filter
\* the nil slots and "return filteredData, nil"
PoolReturn ==
    /\ mpc = "collect"
    /\ results = <<>>
    /\ resultsClosed
    /\ filteredData' = FilterNil(commitData)
    /\ poolErr' = "nil"
    /\ mpc' = "returned"
    /\ UNCHANGED <<lateVars, restVars, commits, workersArg, workers, jobs, jobsClosed, results,
                   resultsClosed, wg, wpc, wjob, sendI, commitData, taken, collected,
                   classifyVars, analyzeVars>>

\* runAnalyze after FetchCommits returned: leave on an empty result, otherwise go
\* on to the analysis (AnalyzeTimeline or Analyze)
RunAnalyze ==
    /\ mpc = "returned"
    /\ mpc' = IF Len(filteredData) = 0 THEN "exit" ELSE "analyze"
    /\ UNCHANGED <<lateVars, restVars, commits, workersArg, workers, jobs, jobsClosed, results,
                   resultsClosed, wg, wpc, wjob, sendI, commitData, filteredData,
                   poolErr, taken, collected, classifyVars, analyzeVars>>

PoolNext ==
    \/ PoolStart
    \/ SendJob
    \/ CloseJobs
    \/ \E w \in DOMAIN wpc : WorkerRecv(w)
    \/ \E w \in DOMAIN wpc : WorkerProcess(w)
    \/ \E w \in DOMAIN wpc : WorkerExit(w)
    \/ CloseResults
    \/ Collect
    \/ PoolReturn
    \/ RunAnalyze

SpecPool == PoolInit /\ [][PoolNext]_vars

(***************************************************************************)
(* Claims about the worker pool                                            *)
(***************************************************************************)
PoolReturned == mpc \in {"returned", "analyze", "exit"}
Succeeds(i) == commits[i].statsOk
OutputsOf(i) == {a \in 1..Len(filteredData) : filteredData[a].SHA = commits[i].sha}

\* C1: in the returned sequence the records of two successful inputs i < j appear
\* in that order, for every worker count and interleaving.
C1_OrderPreserved ==
    PoolReturned =>
        \A i, j \in 1..Len(commits) :
            (i < j /\ Succeeds(i) /\ Succeeds(j)) =>
                \E a \in OutputsOf(i) : \E b \in OutputsOf(j) : a < b

\* the pool returned after a later input's result was collected before an earlier
\* one's, both successful
C1_Witness ==
    /\ PoolReturned
    /\ \E a, b \in 1..Len(collected) :
          /\ a < b
          /\ collected[a] > collected[b]
          /\ Succeeds(collected[a])
          /\ Succeeds(collected[b])

\* C2: the returned sequence holds exactly one entry per successful input, none
\* per failed input, nothing else, and the call returns a nil error.
C2_ExactlySuccesses ==
    PoolReturned =>
        /\ poolErr = "nil"
        /\ \A i \in 1..Len(commits) :
              Cardinality(OutputsOf(i)) = IF Succeeds(i) THEN 1 ELSE 0
        /\ Len(filteredData) = Cardinality({i \in 1..Len(commits) : Succeeds(i)})

\* the pool returned on an input where a failed extraction precedes a successful
\* one
C2_Witness ==
    /\ PoolReturned
    /\ \E i, j \in 1..Len(commits) : i < j /\ ~Succeeds(i) /\ Succeeds(j)

\* C3: no input is received from the job queue twice, and when the pool returns
\* every input has been received exactly once, by one worker.
C3_DispatchedOnce ==
    /\ \A i \in 1..Len(commits) : Len(taken[i]) <= 1
    /\ PoolReturned => \A i \in 1..Len(commits) : Len(taken[i]) = 1

\* the pool returned with more workers than inputs and two inputs received by
\* different workers
C3_Witness ==
    /\ PoolReturned
    /\ workers > Len(commits)
    /\ \E i, j \in 1..Len(commits) :
          Len(taken[i]) = 1 /\ Len(taken[j]) = 1 /\ taken[i] # taken[j]

\* C4: when processCommitsConcurrent has returned, every worker has exited and a
\* result has been collected for every input; so no worker runs once the analysis
\* has started.
C4_ReturnsAfterAll ==
    PoolReturned =>
        /\ \A w \in DOMAIN wpc : wpc[w] = "done"
        /\ wg = 0
        /\ jobs = <<>> /\ results = <<>>
        /\ {collected[k] : k \in 1..Len(collected)} = 1..Len(commits)
        /\ Len(collected) = Len(commits)

\* the analysis started after a pool run of several workers with a failed
\* extraction among the inputs
C4_Witness ==
    /\ mpc = "analyze"
    /\ workers >= 2
    /\ Len(commits) >= 2
    /\ \E i \in 1..Len(commits) : ~Succeeds(i)

(***************************************************************************)
(* pkg/types and pkg/analyzer: Analyzer.Analyze                            *)
(***************************************************************************)
\* Go maps with int values: a missing key reads as 0
MapGet(m, k) == IF k \in DOMAIN m THEN m[k] ELSE 0
MapPut(m, k, v) == [x \in DOMAIN m \cup {k} |-> IF x = k THEN v ELSE m[x]]

\* time.Time.Before / After / IsZero on calendar dates
Before(a, b) ==
    \/ a.Year < b.Year
    \/ a.Year = b.Year /\ a.Month < b.Month
    \/ a.Year = b.Year /\ a.Month = b.Month /\ a.Day < b.Day
After(a, b) == Before(b, a)
IsZero(a) == a = ZeroTime

\* decimal digits of n, zero-padded to the given width
Digits == <<"0","1","2","3","4","5","6","7","8","9">>
Pad(n, width) == [i \in 1..width |-> Digits[((n \div (10 ^ (width - i))) % 10) + 1]]

\* commit.Date.Format("2006-01")
FormatMonth(d) == Pad(d.Year, 4) \o <<"-">> \o Pad(d.Month, 2)

\* types.NewVendorMetrics
NewVendorMetrics(name) ==
    [Name |-> name, TotalCommits |-> 0, TotalAdditions |-> 0, TotalDeletions |-> 0,
     UniqueContributors |-> {}, CommitsByMonth |-> <<>>, AdditionsByMonth |-> <<>>,
     DeletionsByMonth |-> <<>>]

\* VendorMetrics.ContributorCount
ContributorCount(vm) == Cardinality(vm.UniqueContributors)

\* Config.GetAllCategories: the vendor names, then "community"
GetAllCategories(V) == DOMAIN V \cup {community}

\* a contributor identified by the email alone
ContributorIDEmailOnly(commit) == commit.AuthorEmail

\* "contributorID := commit.AuthorEmail; if contributorID == "" { = AuthorName }"
ContributorID(commit) ==
    IF commit.AuthorEmail = EmptyStr THEN commit.AuthorName ELSE commit.AuthorEmail

\* the fold loop body that records the email and the name of every commit
AccumulateEmailAndName(metrics, commit) ==
    [metrics EXCEPT
        !.TotalCommits = @ + 1,
        !.TotalAdditions = @ + commit.Additions,
        !.TotalDeletions = @ + commit.Deletions,
        !.UniqueContributors = @ \cup {commit.AuthorEmail, commit.AuthorName}]

\* the body of the fold loop on one VendorMetrics (lines 53-72)
Accumulate(metrics, commit) ==
    LET id == ContributorID(commit)
        monthKey == FormatMonth(commit.Date)
    IN  [metrics EXCEPT
            !.TotalCommits = @ + 1,
            !.TotalAdditions = @ + commit.Additions,
            !.TotalDeletions = @ + commit.Deletions,
            !.UniqueContributors = IF id # EmptyStr THEN @ \cup {id} ELSE @,
            !.CommitsByMonth = MapPut(@, monthKey, MapGet(@, monthKey) + 1),
            !.AdditionsByMonth =
                MapPut(@, monthKey, MapGet(@, monthKey) + commit.Additions),
            !.DeletionsByMonth =
                MapPut(@, monthKey, MapGet(@, monthKey) + commit.Deletions)]

(***************************************************************************)
(* Inputs of the fold                                                      *)
(***************************************************************************)
\* the most commits handed to Analyze
MaxRecords == 2

Identities ==
    {[AuthorName |-> <<"A","l">>, AuthorEmail |-> <<"a","@","x",".","I","O">>],
     [AuthorName |-> <<"A","l">>, AuthorEmail |-> <<"b","@","M","E",".","c","o","m">>],
     [AuthorName |-> <<"A","l">>, AuthorEmail |-> EmptyStr],
     [AuthorName |-> EmptyStr, AuthorEmail |-> EmptyStr]}

Changes ==
    {[Date |-> [Year |-> 2024, Month |-> 1, Day |-> 15], Additions |-> 1, Deletions |-> 0],
     [Date |-> [Year |-> 2023, Month |-> 12, Day |-> 31], Additions |-> 2, Deletions |-> 3]}

CommitPool ==
    {[AuthorName |-> id.AuthorName, AuthorEmail |-> id.AuthorEmail, Date |-> ch.Date,
      Additions |-> ch.Additions, Deletions |-> ch.Deletions] :
        id \in Identities, ch \in Changes}

\* configurations that classify by email domain (Analyze passes "" for the
\* organization and the username)
AnalyzeConfigs ==
    {V \in Configs :
        /\ DOMAIN V \subseteq {acme, beta}
        /\ \A v \in DOMAIN V : V[v].GithubCompanies = <<>> /\ V[v].Usernames = <<>>}

\* the orders in which a slice can be handed to Analyze
Shuffles(cs) ==
    {[i \in 1..Len(cs) |-> cs[p[i]]] :
        p \in {q \in [1..Len(cs) -> 1..Len(cs)] :
                  \A i, j \in 1..Len(cs) : i # j => q[i] # q[j]}}

AnalyzeInit ==
    /\ Vendors \in AnalyzeConfigs
    /\ email = EmptyStr
    /\ company = EmptyStr
    /\ username = EmptyStr
    /\ returned = <<>>
    /\ \E n \in 0..MaxRecords : records \in [1..n -> CommitPool]
    /\ folding = <<>>
    /\ apc = "idle"
    /\ aIdx = 0
    /\ vendorMetrics = <<>>
    /\ allContributors = {}
    /\ minDate = ZeroTime
    /\ maxDate = ZeroTime
    /\ classifiedAs = <<>>
    /\ analyses = <<>>
    /\ PoolIdle
    /\ LateIdle
    /\ RestIdle

\* Analyze up to its loop (lines 25-39): the first call gets the commits as
\* fetched, a second call gets them in any order
AnalyzeCall ==
    /\ \/ apc = "idle" /\ folding' = records
       \/ apc = "done" /\ Len(analyses) = 1 /\ folding' \in Shuffles(records)
    /\ vendorMetrics' = [c \in GetAllCategories(Vendors) |-> NewVendorMetrics(c)]
    /\ minDate' = IF Len(folding') > 0 THEN folding'[1].Date ELSE ZeroTime
    /\ maxDate' = IF Len(folding') > 0 THEN folding'[1].Date ELSE ZeroTime
    /\ allContributors' = {}
    /\ classifiedAs' = <<>>
    /\ aIdx' = 1
    /\ apc' = "loop"
    /\ UNCHANGED <<lateVars, restVars, records, analyses, classifyVars, poolVars>>

\* one iteration of "for _, commit := range commits" (lines 42-81)
AnalyzeStep ==
    /\ apc = "loop"
    /\ aIdx <= Len(folding)
    /\ LET commit == folding[aIdx]
       IN  /\ \E vendor \in Classify(Vendors, commit.AuthorEmail, EmptyStr, EmptyStr) :
                 LET metrics == IF vendor \in DOMAIN vendorMetrics
                                THEN vendorMetrics[vendor]
                                ELSE NewVendorMetrics(vendor)
                 IN  /\ vendorMetrics' =
                            [c \in DOMAIN vendorMetrics \cup {vendor} |->
                                IF c = vendor THEN Accumulate(metrics, commit)
                                ELSE vendorMetrics[c]]
                     /\ classifiedAs' = Append(classifiedAs, vendor)
           /\ allContributors' = IF ContributorID(commit) # EmptyStr
                                 THEN allContributors \cup {ContributorID(commit)}
                                 ELSE allContributors
           /\ minDate' = IF Before(commit.Date, minDate) \/ IsZero(minDate)
                         THEN commit.Date ELSE minDate
           /\ maxDate' = IF After(commit.Date, maxDate) \/ IsZero(maxDate)
                         THEN commit.Date ELSE maxDate
    /\ aIdx' = aIdx + 1
    /\ UNCHANGED <<lateVars, restVars, records, folding, apc, analyses, classifyVars, poolVars>>

\* "return &types.RepositoryAnalysis{...}" (lines 83-89)
AnalyzeReturn ==
    /\ apc = "loop"
    /\ aIdx > Len(folding)
    /\ analyses' = Append(analyses,
                          [TotalCommits |-> Len(folding),
                           TotalContributors |-> Cardinality(allContributors),
                           DateRange |-> [Start |-> minDate, End |-> maxDate],
                           VendorMetrics |-> vendorMetrics])
    /\ apc' = "done"
    /\ UNCHANGED <<lateVars, restVars, records, folding, aIdx, vendorMetrics, allContributors, minDate,
                   maxDate, classifiedAs, classifyVars, poolVars>>

AnalyzeNext ==
    \/ AnalyzeCall
    \/ AnalyzeStep
    \/ AnalyzeReturn

SpecAnalyze == AnalyzeInit /\ [][AnalyzeNext]_vars

(***************************************************************************)
(* Claims about the fold                                                   *)
(***************************************************************************)
\* the loop positions of the finished call whose commit was classified as c
ClassifiedAs(c) == {k \in 1..Len(classifiedAs) : classifiedAs[k] = c}

RECURSIVE SumOver(_, _)
SumOver(S, field) ==
    IF S = {} THEN 0
    ELSE LET k == CHOOSE x \in S : TRUE
         IN  (IF field = "Additions" THEN folding[k].Additions
              ELSE folding[k].Deletions) + SumOver(S \ {k}, field)

\* email, or display name when the email is empty
IdentifierOf(commit) ==
    IF commit.AuthorEmail = EmptyStr THEN commit.AuthorName ELSE commit.AuthorEmail

TotalsMatch(c) ==
    /\ c \in DOMAIN vendorMetrics
    /\ vendorMetrics[c].TotalCommits = Cardinality(ClassifiedAs(c))
    /\ vendorMetrics[c].TotalAdditions = SumOver(ClassifiedAs(c), "Additions")
    /\ vendorMetrics[c].TotalDeletions = SumOver(ClassifiedAs(c), "Deletions")

FoldedCategories ==
    DOMAIN vendorMetrics \cup {classifiedAs[k] : k \in 1..Len(classifiedAs)}

\* C9 as stated: after Analyze, per category, the totals count and sum the records
\* classified as it and UniqueContributors is exactly the set of their
\* identifiers (email, or display name when the email is empty).
C9_AsStated ==
    apc = "done" =>
        \A c \in FoldedCategories :
            /\ TotalsMatch(c)
            /\ vendorMetrics[c].UniqueContributors =
                   {IdentifierOf(folding[k]) : k \in ClassifiedAs(c)}

\* C9 amended: as stated, with UniqueContributors exactly the set of the non-empty
\* identifiers of those records (a record with neither email nor display name
\* adds no contributor).
C9_FoldTotals ==
    apc = "done" =>
        \A c \in FoldedCategories :
            /\ TotalsMatch(c)
            /\ vendorMetrics[c].UniqueContributors =
                   {IdentifierOf(folding[k]) : k \in ClassifiedAs(c)} \ {EmptyStr}

\* a finished fold with a category that received two commits of one contributor
\* identified by the display name
C9_Witness ==
    /\ apc = "done"
    /\ \E c \in DOMAIN vendorMetrics :
          /\ vendorMetrics[c].TotalCommits >= 2
          /\ \E k \in ClassifiedAs(c) :
                /\ folding[k].AuthorEmail = EmptyStr
                /\ folding[k].AuthorName \in vendorMetrics[c].UniqueContributors
          /\ Cardinality(vendorMetrics[c].UniqueContributors) = 1

\* the per-category totals and month buckets of a returned analysis
CategoryTotals(analysis) ==
    [c \in DOMAIN analysis.VendorMetrics |->
        [TotalCommits |-> analysis.VendorMetrics[c].TotalCommits,
         TotalAdditions |-> analysis.VendorMetrics[c].TotalAdditions,
         TotalDeletions |-> analysis.VendorMetrics[c].TotalDeletions,
         ContributorCount |-> ContributorCount(analysis.VendorMetrics[c]),
         CommitsByMonth |-> analysis.VendorMetrics[c].CommitsByMonth,
         AdditionsByMonth |-> analysis.VendorMetrics[c].AdditionsByMonth,
         DeletionsByMonth |-> analysis.VendorMetrics[c].DeletionsByMonth]]

\* C10: Analyze on a record sequence and on any permutation of it, with the same
\* classifier, yields identical per-category totals, unique-contributor counts
\* and month buckets.
C10_FoldCommutes ==
    Len(analyses) = 2 => CategoryTotals(analyses[1]) = CategoryTotals(analyses[2])

\* no rule value of the configuration is listed under two categories
NoSharedDomain ==
    \A v, w \in DOMAIN Vendors :
        v # w => \A i \in 1..Len(Vendors[v].Domains) :
                     \A j \in 1..Len(Vendors[w].Domains) :
                         ~EqualFold(Vendors[v].Domains[i], Vendors[w].Domains[j])

\* the same comparison on configurations whose categories share no domain
C10_CommutesWithoutSharedDomain == NoSharedDomain => C10_FoldCommutes

(***************************************************************************)
(* time.Time on the proleptic Gregorian calendar, in UTC: a timestamp is   *)
(* [Year, Month, Day, Sec] with Sec the second of the day                  *)
(***************************************************************************)
isLeap(year) == year % 4 = 0 /\ (year % 100 # 0 \/ year % 400 = 0)

\* days of the year before the first of the month, in a non-leap year
daysBefore == <<0, 31, 59, 90, 120, 151, 181, 212, 243, 273, 304, 334>>

daysIn(year, month) ==
    IF month = 2 THEN (IF isLeap(year) THEN 29 ELSE 28)
    ELSE IF month \in {4, 6, 9, 11} THEN 30 ELSE 31

\* days from January 1 of year 1 to January 1 of the year
daysSinceEpoch(year) ==
    365 * (year - 1) + ((year - 1) \div 4) - ((year - 1) \div 100) + ((year - 1) \div 400)

\* zero-based day of the year of the first of the month
monthStart(year, month) ==
    daysBefore[month] + (IF month > 2 /\ isLeap(year) THEN 1 ELSE 0)

\* days from January 1 of year 1 to the date
absDays(t) == daysSinceEpoch(t.Year) + monthStart(t.Year, t.Month) + t.Day - 1

\* the calendar date of a day count, at the given second of the day
absDate(n, sec) ==
    LET est == ((n * 400) \div 146097) + 1
        year == CHOOSE y \in (est - 1)..(est + 1) :
                    daysSinceEpoch(y) <= n /\ n < daysSinceEpoch(y + 1)
        yday == n - daysSinceEpoch(year)
        month == CHOOSE m \in 1..12 :
                     /\ monthStart(year, m) <= yday
                     /\ yday < monthStart(year, m) + daysIn(year, m)
    IN  [Year |-> year, Month |-> month, Day |-> yday - monthStart(year, month) + 1,
         Sec |-> sec]

\* time.Date(year, month, day, h, m, s, 0, time.UTC): values outside their
\* ranges are normalised
Date(year, month, day, sec) ==
    LET y == year + ((month - 1) \div 12)
        m == ((month - 1) % 12) + 1
    IN  absDate(daysSinceEpoch(y) + monthStart(y, m) + day - 1, sec)

\* Time.AddDate(0, 0, days)
AddDate(t, days) == absDate(absDays(t) + days, t.Sec)

\* Time.Add(-time.Second)
SubSecond(t) ==
    IF t.Sec > 0 THEN [t EXCEPT !.Sec = @ - 1] ELSE absDate(absDays(t) - 1, 86399)

\* Time.Weekday: Sunday = 0 ... Saturday = 6 (January 1 of year 1 is a Monday)
Monday == 1
Weekday(t) == (absDays(t) + 1) % 7

\* Time.YearDay, from 1
YearDay(t) == monthStart(t.Year, t.Month) + t.Day

\* Time.ISOWeek: the year and the week of the Thursday of the date's week
ISOWeek(t) ==
    LET d == IF Weekday(t) = 0 THEN -3 ELSE 4 - Weekday(t)
        th == absDate(absDays(t) + d, 0)
    IN  [year |-> th.Year, week |-> ((YearDay(th) - 1) \div 7) + 1]

\* the comparison of two timestamps
TimeBefore(a, b) ==
    \/ absDays(a) < absDays(b)
    \/ absDays(a) = absDays(b) /\ a.Sec < b.Sec

(***************************************************************************)
(* fmt.Sprintf and fmt.Sscanf on the period keys                           *)
(***************************************************************************)
RECURSIVE Itoa(_)
\* the %d verb on a non-negative integer
Itoa(n) == IF n < 10 THEN <<Digits[n + 1]>> ELSE Itoa(n \div 10) \o <<Digits[(n % 10) + 1]>>

\* the %02d verb
Itoa02(n) == IF n < 10 THEN <<"0">> \o Itoa(n) ELSE Itoa(n)

IsDigit(c) == \E i \in 1..10 : Digits[i] = c
DigitVal(c) == (CHOOSE i \in 1..10 : Digits[i] = c) - 1

RECURSIVE ScanInt(_, _, _)
\* the %d verb of Sscanf from position i: the value read and the position after it
ScanInt(s, i, acc) ==
    IF i <= Len(s) /\ IsDigit(s[i])
    THEN ScanInt(s, i + 1, (acc * 10) + DigitVal(s[i]))
    ELSE [val |-> acc, next |-> i]

\* fmt.Sscanf(s, "%d" + lit + "%d", &a, &b): a variable that is not reached
\* keeps its zero value
Sscanf2(s, lit) ==
    LET a == ScanInt(s, 1, 0)
        litOk == /\ a.next > 1
                 /\ a.next + Len(lit) - 1 <= Len(s)
                 /\ \A k \in 1..Len(lit) : s[a.next + k - 1] = lit[k]
        b == ScanInt(s, a.next + Len(lit), 0)
    IN  <<a.val, IF litOk THEN b.val ELSE 0>>

(***************************************************************************)
(* pkg/analyzer: getPeriodKey and getPeriodRange                           *)
(***************************************************************************)
\* week keys numbered within the calendar year
getPeriodKeyCalendarWeek(date, bt) ==
    CASE bt = "year" -> Itoa(date.Year)
      [] bt = "quarter" ->
            Itoa(date.Year) \o <<"-", "Q">> \o Itoa(((date.Month - 1) \div 3) + 1)
      [] bt = "month" -> Itoa(date.Year) \o <<"-">> \o Itoa02(date.Month)
      [] bt = "week" ->
            Itoa(date.Year) \o <<"-", "W">> \o Itoa02(((YearDay(date) - 1) \div 7) + 1)
      [] OTHER -> Itoa(date.Year)

getPeriodKey(date, bt) ==
    CASE bt = "year" -> Itoa(date.Year)
      [] bt = "quarter" ->
            Itoa(date.Year) \o <<"-", "Q">> \o Itoa(((date.Month - 1) \div 3) + 1)
      [] bt = "month" -> Itoa(date.Year) \o <<"-">> \o Itoa02(date.Month)
      [] bt = "week" ->
            LET w == ISOWeek(date)
            IN  Itoa(w.year) \o <<"-", "W">> \o Itoa02(w.week)
      [] OTHER -> Itoa(date.Year)

\* the first Monday on or after the date: "for start.Weekday() != time.Monday"
RECURSIVE NextMonday(_)
NextMonday(start) ==
    IF Weekday(start) # Monday THEN NextMonday(AddDate(start, 1)) ELSE start

\* the zero time.Time with its second of the day
ZeroStamp == [Year |-> 1, Month |-> 1, Day |-> 1, Sec |-> 0]

getPeriodRange(period, bt) ==
    CASE bt = "year" ->
            LET year == ScanInt(period, 1, 0).val
            IN  [Start |-> Date(year, 1, 1, 0), End |-> Date(year, 12, 31, 86399)]
      [] bt = "quarter" ->
            LET p == Sscanf2(period, <<"-", "Q">>)
                year == p[1]
                quarter == p[2]
                startMonth == ((quarter - 1) * 3) + 1
                endMonth == quarter * 3
            IN  [Start |-> Date(year, startMonth, 1, 0),
                 End |-> SubSecond(Date(year, endMonth + 1, 1, 0))]
      [] bt = "month" ->
            LET p == Sscanf2(period, <<"-">>)
                year == p[1]
                month == p[2]
            IN  [Start |-> Date(year, month, 1, 0),
                 End |-> SubSecond(Date(year, month + 1, 1, 0))]
      [] bt = "week" ->
            LET p == Sscanf2(period, <<"-", "W">>)
                year == p[1]
                week == p[2]
                start == AddDate(NextMonday(Date(year, 1, 1, 0)), (week - 1) * 7)
            IN  [Start |-> start, End |-> SubSecond(AddDate(start, 7))]
      [] OTHER -> [Start |-> ZeroStamp, End |-> ZeroStamp]

(***************************************************************************)
(* Calls of getPeriodKey and getPeriodRange on one timestamp               *)
(***************************************************************************)
BreakdownTypes == {"year", "quarter", "month", "week"}

\* every day of five years that start on a Wednesday, a Friday, a Monday, a
\* Wednesday and a Thursday, at the first, the middle and the last second
Stamps ==
    {t \in [Year : {2020, 2021, 2024, 2025, 2026}, Month : 1..12, Day : 1..31,
            Sec : {0, 43200, 86399}] : t.Day <= daysIn(t.Year, t.Month)}

PeriodInit ==
    /\ pDate \in Stamps
    /\ pBreakdown \in BreakdownTypes \cup {"day"}
    /\ pPeriod = <<>>
    /\ pRange = <<>>
    /\ ClassifyIdle
    /\ PoolIdle
    /\ LateIdle
    /\ AnalyzeIdle
    /\ TimelineIdle
    /\ GroupIdle

\* period := getPeriodKey(commit.Date, breakdownType)
CallGetPeriodKey ==
    /\ pPeriod = <<>>
    /\ pPeriod' = getPeriodKey(pDate, pBreakdown)
    /\ UNCHANGED <<lateVars, pDate, pBreakdown, pRange, classifyVars, poolVars, analyzeVars,
                   timelineVars, groupVars>>

\* startDate, endDate := getPeriodRange(period, breakdownType)
CallGetPeriodRange ==
    /\ pPeriod # <<>>
    /\ pRange = <<>>
    /\ pRange' = getPeriodRange(pPeriod, pBreakdown)
    /\ UNCHANGED <<lateVars, pDate, pBreakdown, pPeriod, classifyVars, poolVars, analyzeVars,
                   timelineVars, groupVars>>

PeriodNext ==
    \/ CallGetPeriodKey
    \/ CallGetPeriodRange

SpecPeriod == PeriodInit /\ [][PeriodNext]_vars

(***************************************************************************)
(* Claims about the period keys and windows                                *)
(***************************************************************************)
\* a <= t <= b on timestamps
Within(t, a, b) == ~TimeBefore(t, a) /\ ~TimeBefore(b, t)

\* the day count of the Monday of the week (Monday to Sunday) of a day count
MondayOf(n) == n - (n % 7)

\* ISO 8601: week 1 of a year is the week that contains January 4
WeekOneMonday(year) == MondayOf(daysSinceEpoch(year) + 3)

\* the ISO week-numbering year and week of a timestamp, by the definition
IsoYearOf(t) ==
    CHOOSE y \in (t.Year - 1)..(t.Year + 1) :
        WeekOneMonday(y) <= absDays(t) /\ absDays(t) < WeekOneMonday(y + 1)
IsoWeekOf(t) == ((MondayOf(absDays(t)) - WeekOneMonday(IsoYearOf(t))) \div 7) + 1

\* C13: for every timestamp t and every granularity the window computed from
\* t's period key contains t (StartDate <= t <= EndDate); for week the window
\* starts at 00:00:00 on the Monday of t's ISO week and ends six days and
\* 23:59:59 later.
C13_WindowContains ==
    (pRange # <<>> /\ pBreakdown \in BreakdownTypes) =>
        /\ Within(pDate, pRange.Start, pRange.End)
        /\ pBreakdown = "week" =>
              /\ pRange.Start = absDate(MondayOf(absDays(pDate)), 0)
              /\ pRange.End = absDate(MondayOf(absDays(pDate)) + 6, 86399)

\* the part of C13 that the code satisfies: year, quarter and month windows
\* contain the timestamp, and a week window is seven days from a Monday
C13_CalendarWindows ==
    (pRange # <<>> /\ pBreakdown \in BreakdownTypes) =>
        /\ pBreakdown # "week" => Within(pDate, pRange.Start, pRange.End)
        /\ pBreakdown = "week" =>
              /\ Weekday(pRange.Start) = Monday
              /\ pRange.Start.Sec = 0
              /\ pRange.End = absDate(absDays(pRange.Start) + 6, 86399)

\* the week windows are right in the years whose January 1 is a Monday or
\* falls after the Thursday
C13_WeekWhenYearStartsLate ==
    (pRange # <<>> /\ pBreakdown = "week"
        /\ Weekday(Date(IsoYearOf(pDate), 1, 1, 0)) \in {Monday, 5, 6, 0}) =>
            Within(pDate, pRange.Start, pRange.End)

\* the digits of n at a fixed width, the quarter as the ceiling of month/3
Ceil3(month) == CHOOSE n \in 1..4 : 3 * (n - 1) < month /\ month <= 3 * n

\* C14: the key of a timestamp is "YYYY" for year, "YYYY-Qn" with
\* n = ceil(month/3) for quarter, "YYYY-MM" for month and "YYYY-Www" with the
\* two-digit ISO-8601 week and the ISO week-numbering year for week; the dates
\* 2024-01-15, 2024-04-20 and 2024-07-01 give 2024-Q1, 2024-Q2 and 2024-Q3.
C14_KeyDerivation ==
    (pPeriod # <<>> /\ pBreakdown \in BreakdownTypes) =>
        /\ pBreakdown = "year" => pPeriod = Pad(pDate.Year, 4)
        /\ pBreakdown = "quarter" =>
              pPeriod = Pad(pDate.Year, 4) \o <<"-", "Q">> \o Pad(Ceil3(pDate.Month), 1)
        /\ pBreakdown = "month" =>
              pPeriod = Pad(pDate.Year, 4) \o <<"-">> \o Pad(pDate.Month, 2)
        /\ pBreakdown = "week" =>
              pPeriod = Pad(IsoYearOf(pDate), 4) \o <<"-", "W">> \o Pad(IsoWeekOf(pDate), 2)
        /\ (pBreakdown = "quarter" /\ pDate.Year = 2024 /\ pDate.Month = 1
                /\ pDate.Day = 15) => pPeriod = <<"2", "0", "2", "4", "-", "Q", "1">>
        /\ (pBreakdown = "quarter" /\ pDate.Year = 2024 /\ pDate.Month = 4
                /\ pDate.Day = 20) => pPeriod = <<"2", "0", "2", "4", "-", "Q", "2">>
        /\ (pBreakdown = "quarter" /\ pDate.Year = 2024 /\ pDate.Month = 7
                /\ pDate.Day = 1) => pPeriod = <<"2", "0", "2", "4", "-", "Q", "3">>

\* a week key whose ISO year is not the calendar year of the timestamp
C14_Witness ==
    /\ pPeriod # <<>>
    /\ pBreakdown = "week"
    /\ IsoYearOf(pDate) # pDate.Year
    /\ pPeriod = getPeriodKey(pDate, pBreakdown)

(***************************************************************************)
(* pkg/analyzer: AnalyzeTimeline and TimeBreakdown.GetVendorPercentage     *)
(***************************************************************************)
\* the bytes of the period keys in ascending order
KeyBytes == <<"-", "0", "1", "2", "3", "4", "5", "6", "7", "8", "9", "Q", "W">>
ByteOf(c) == CHOOSE i \in 1..Len(KeyBytes) : KeyBytes[i] = c

\* a < b on Go strings (bytewise)
StringLess(a, b) ==
    \E k \in 1..(Len(a) + 1) :
        /\ \A i \in 1..(k - 1) : i <= Len(b) /\ a[i] = b[i]
        /\ k <= Len(b)
        /\ k <= Len(a) => ByteOf(a[k]) < ByteOf(b[k])

RECURSIVE KeysDescending(_)
\* the keys from the greatest to the least
KeysDescending(S) ==
    IF S = {} THEN <<>>
    ELSE LET m == CHOOSE x \in S : \A y \in S \ {x} : StringLess(y, x)
         IN  <<m>> \o KeysDescending(S \ {m})

RECURSIVE SortStrings(_)
\* sort.Strings on the distinct keys of a map
SortStrings(S) ==
    IF S = {} THEN <<>>
    ELSE LET m == CHOOSE x \in S : \A y \in S \ {x} : StringLess(x, y)
         IN  <<m>> \o SortStrings(S \ {m})

RECURSIVE KeepPeriod(_, _, _)
\* the commits of one period, in input order: periodMap[period] after the
\* grouping loop (lines 42-45)
KeepPeriod(cs, bt, period) ==
    IF cs = <<>> THEN <<>>
    ELSE (IF getPeriodKey(Head(cs).Date, bt) = period THEN <<Head(cs)>> ELSE <<>>)
             \o KeepPeriod(Tail(cs), bt, period)

GroupByPeriod(cs, bt) ==
    [period \in {getPeriodKey(cs[i].Date, bt) : i \in 1..Len(cs)} |->
        KeepPeriod(cs, bt, period)]

\* the loop body that counts no commit
FoldPeriodCommitUncounted(metrics, commit) ==
    [metrics EXCEPT
        !.TotalAdditions = @ + commit.Additions,
        !.TotalDeletions = @ + commit.Deletions,
        !.UniqueContributors = @ \cup {commit.AuthorEmail}]

\* the loop body on the metrics of the commit's vendor (lines 72-75)
FoldPeriodCommit(metrics, commit) ==
    [metrics EXCEPT
        !.TotalCommits = @ + 1,
        !.TotalAdditions = @ + commit.Additions,
        !.TotalDeletions = @ + commit.Deletions,
        !.UniqueContributors = @ \cup {commit.AuthorEmail}]

RECURSIVE OverallDateRange(_, _)
\* the loop over the commits that widens dateRange (lines 97-104)
OverallDateRange(cs, range) ==
    IF cs = <<>> THEN range
    ELSE LET d == Head(cs).Date
             start == IF Before(d, range.Start) THEN d ELSE range.Start
             end == IF After(d, range.End) THEN d ELSE range.End
         IN  OverallDateRange(Tail(cs), [Start |-> start, End |-> end])

\* sums over the VendorMetrics of one TimeBreakdown
RECURSIVE SumMetric(_, _, _)
SumMetric(vm, names, metric) ==
    IF names = {} THEN 0
    ELSE LET n == CHOOSE x \in names : TRUE
             v == CASE metric = "commits" -> vm[n].TotalCommits
                    [] metric = "additions" -> vm[n].TotalAdditions
                    [] metric = "contributors" -> ContributorCount(vm[n])
                    [] OTHER -> 0
         IN  v + SumMetric(vm, names \ {n}, metric)

\* a float64 quotient times 100, kept as the fraction it was computed from
Percent(num, den) == [Num |-> num, Den |-> den]
ZeroPercent == [Num |-> 0, Den |-> 1]

\* every share taken of the period's commit counter
GetVendorPercentageOfCommits(tb, vendor, metric) ==
    IF tb.TotalCommits = 0 THEN ZeroPercent
    ELSE IF vendor \notin DOMAIN tb.VendorMetrics THEN ZeroPercent
    ELSE LET metrics == tb.VendorMetrics[vendor]
         IN  CASE metric = "commits" -> Percent(metrics.TotalCommits, tb.TotalCommits)
               [] metric = "additions" -> Percent(metrics.TotalAdditions, tb.TotalCommits)
               [] metric = "contributors" ->
                      Percent(ContributorCount(metrics), tb.TotalCommits)
               [] OTHER -> ZeroPercent

\* TimeBreakdown.GetVendorPercentage
GetVendorPercentage(tb, vendor, metric) ==
    IF tb.TotalCommits = 0 THEN ZeroPercent
    ELSE IF vendor \notin DOMAIN tb.VendorMetrics THEN ZeroPercent
    ELSE LET metrics == tb.VendorMetrics[vendor]
             names == DOMAIN tb.VendorMetrics
         IN  CASE metric = "commits" -> Percent(metrics.TotalCommits, tb.TotalCommits)
               [] metric = "additions" ->
                      LET totalAdditions == SumMetric(tb.VendorMetrics, names, "additions")
                      IN  IF totalAdditions = 0 THEN ZeroPercent
                          ELSE Percent(metrics.TotalAdditions, totalAdditions)
               [] metric = "contributors" ->
                      LET totalContributors ==
                              SumMetric(tb.VendorMetrics, names, "contributors")
                      IN  IF totalContributors = 0 THEN ZeroPercent
                          ELSE Percent(ContributorCount(metrics), totalContributors)
               [] OTHER -> ZeroPercent

(***************************************************************************)
(* Inputs of AnalyzeTimeline                                               *)
(***************************************************************************)
TimelineCommit(name, mail, y, m, d, add, del) ==
    [AuthorName |-> name, AuthorEmail |-> mail,
     Date |-> [Year |-> y, Month |-> m, Day |-> d], Additions |-> add, Deletions |-> del]

AuthorAl == <<"A", "l">>
MailX == <<"a", "@", "x", ".", "I", "O">>
MailMe == <<"b", "@", "M", "E", ".", "c", "o", "m">>

\* commits on the dates of the quarter scenario, on a Monday that belongs to
\* week 1 of the next ISO year and on the Wednesday after it
TimelineCommits ==
    {TimelineCommit(AuthorAl, MailX, 2024, 1, 15, 1, 0),
     TimelineCommit(AuthorAl, MailMe, 2024, 4, 20, 0, 0),
     TimelineCommit(AuthorAl, MailX, 2024, 7, 1, 2, 3),
     TimelineCommit(AuthorAl, EmptyStr, 2024, 12, 30, 0, 1),
     TimelineCommit(AuthorAl, MailMe, 2025, 1, 1, 1, 1),
     TimelineCommit(EmptyStr, EmptyStr, 2024, 1, 15, 0, 0)}

\* "records dated 2024-01-15, 2024-04-20, 2024-07-01"
QuarterScenario ==
    <<TimelineCommit(AuthorAl, MailX, 2024, 1, 15, 1, 0),
      TimelineCommit(AuthorAl, MailMe, 2024, 4, 20, 0, 0),
      TimelineCommit(AuthorAl, MailX, 2024, 7, 1, 2, 3)>>

\* records in the last ISO week of 2020 (week 53) and in week 1 of 2021
YearBoundaryScenario ==
    <<TimelineCommit(AuthorAl, MailX, 2020, 12, 31, 1, 0),
      TimelineCommit(AuthorAl, MailMe, 2021, 1, 5, 0, 1)>>

Metrics == {"commits", "additions", "contributors", "deletions"}

TimelineInit ==
    /\ Vendors \in AnalyzeConfigs
    /\ email = EmptyStr
    /\ company = EmptyStr
    /\ username = EmptyStr
    /\ returned = <<>>
    /\ \/ \E n \in 0..MaxRecords : tCommits \in [1..n -> TimelineCommits]
       \/ tCommits = QuarterScenario
       \/ tCommits = YearBoundaryScenario
    /\ breakdownType \in BreakdownTypes
    /\ tpc = "idle"
    /\ periodMap = <<>>
    /\ periods = <<>>
    /\ pIdx = 0
    /\ cIdx = 0
    /\ periodMetrics = <<>>
    /\ totalCommits = 0
    /\ breakdowns = <<>>
    /\ timeline = <<>>
    /\ percentages = <<>>
    /\ PoolIdle
    /\ LateIdle
    /\ AnalyzeIdle
    /\ PeriodIdle
    /\ GroupIdle

\* AnalyzeTimeline on no commits (lines 31-37)
TimelineEmpty ==
    /\ tpc = "idle"
    /\ Len(tCommits) = 0
    /\ timeline' = Append(timeline, [Breakdown |-> breakdownType, Periods |-> <<>>,
                                     DateRange |-> [Start |-> ZeroTime, End |-> ZeroTime]])
    /\ tpc' = "returned"
    /\ UNCHANGED <<lateVars, tCommits, breakdownType, periodMap, periods, pIdx, cIdx,
                   periodMetrics, totalCommits, breakdowns, percentages, classifyVars,
                   poolVars, analyzeVars, periodVars, groupVars>>

\* grouping the commits by period and sorting the keys (lines 40-55)
TimelineGroup ==
    /\ tpc = "idle"
    /\ Len(tCommits) > 0
    /\ periodMap' = GroupByPeriod(tCommits, breakdownType)
    /\ periods' = SortStrings(DOMAIN periodMap')
    /\ breakdowns' = <<>>
    /\ pIdx' = 1
    /\ tpc' = "period"
    /\ UNCHANGED <<lateVars, tCommits, breakdownType, cIdx, periodMetrics, totalCommits,
                   timeline, percentages, classifyVars, poolVars, analyzeVars,
                   periodVars, groupVars>>

\* the head of "for _, period := range periods" (lines 57-67)
PeriodStart ==
    /\ tpc = "period"
    /\ pIdx <= Len(periods)
    /\ periodMetrics' = [c \in GetAllCategories(Vendors) |-> NewVendorMetrics(c)]
    /\ totalCommits' = 0
    /\ cIdx' = 1
    /\ tpc' = "loop"
    /\ UNCHANGED <<lateVars, tCommits, breakdownType, periodMap, periods, pIdx, breakdowns,
                   timeline, percentages, classifyVars, poolVars, analyzeVars,
                   periodVars, groupVars>>

\* one iteration of "for _, commit := range periodCommits" (lines 68-78);
\* vendorMetrics[vendor] of a vendor without an entry is a nil pointer, and
\* "metrics.TotalCommits++" on it panics
PeriodStep ==
    /\ tpc = "loop"
    /\ cIdx <= Len(periodMap[periods[pIdx]])
    /\ LET commit == periodMap[periods[pIdx]][cIdx]
       IN  \E vendor \in Classify(Vendors, commit.AuthorEmail, EmptyStr, EmptyStr) :
               IF vendor \in DOMAIN periodMetrics
               THEN /\ periodMetrics' =
                           [periodMetrics EXCEPT ![vendor] = FoldPeriodCommit(@, commit)]
                    /\ totalCommits' = totalCommits + 1
                    /\ cIdx' = cIdx + 1
                    /\ tpc' = tpc
               ELSE /\ tpc' = "panic"
                    /\ UNCHANGED <<periodMetrics, totalCommits, cIdx>>
    /\ UNCHANGED <<lateVars, tCommits, breakdownType, periodMap, periods, pIdx, breakdowns,
                   timeline, percentages, classifyVars, poolVars, analyzeVars,
                   periodVars, groupVars>>

\* the end of the period: its window and its TimeBreakdown (lines 80-89)
PeriodEnd ==
    /\ tpc = "loop"
    /\ cIdx > Len(periodMap[periods[pIdx]])
    /\ LET range == getPeriodRange(periods[pIdx], breakdownType)
       IN  breakdowns' = Append(breakdowns,
                                [Period |-> periods[pIdx],
                                 StartDate |-> range.Start,
                                 EndDate |-> range.End,
                                 VendorMetrics |-> periodMetrics,
                                 TotalCommits |-> totalCommits])
    /\ pIdx' = pIdx + 1
    /\ tpc' = "period"
    /\ UNCHANGED <<lateVars, tCommits, breakdownType, periodMap, periods, cIdx, periodMetrics,
                   totalCommits, timeline, percentages, classifyVars, poolVars,
                   analyzeVars, periodVars, groupVars>>

\* the overall date range and the return (lines 92-111)
TimelineReturn ==
    /\ tpc = "period"
    /\ pIdx > Len(periods)
    /\ timeline' = Append(timeline,
                          [Breakdown |-> breakdownType,
                           Periods |-> breakdowns,
                           DateRange |-> OverallDateRange(tCommits,
                                             [Start |-> tCommits[1].Date,
                                              End |-> tCommits[1].Date])])
    /\ tpc' = "returned"
    /\ UNCHANGED <<lateVars, tCommits, breakdownType, periodMap, periods, pIdx, cIdx,
                   periodMetrics, totalCommits, breakdowns, percentages, classifyVars,
                   poolVars, analyzeVars, periodVars, groupVars>>

\* one call period.GetVendorPercentage(vendor, metric) on a returned period
CallGetVendorPercentage ==
    /\ tpc = "returned"
    /\ percentages = <<>>
    /\ \E p \in 1..Len(timeline[1].Periods), metric \in Metrics,
          vendor \in GetAllCategories(Vendors) \cup {acme} :
           percentages' = Append(percentages,
                                 [Period |-> p, Vendor |-> vendor, Metric |-> metric,
                                  Value |-> GetVendorPercentage(timeline[1].Periods[p],
                                                                vendor, metric)])
    /\ UNCHANGED <<lateVars, tCommits, breakdownType, tpc, periodMap, periods, pIdx, cIdx,
                   periodMetrics, totalCommits, breakdowns, timeline, classifyVars,
                   poolVars, analyzeVars, periodVars, groupVars>>

TimelineNext ==
    \/ TimelineEmpty
    \/ TimelineGroup
    \/ PeriodStart
    \/ PeriodStep
    \/ PeriodEnd
    \/ TimelineReturn
    \/ CallGetVendorPercentage

SpecTimeline == TimelineInit /\ [][TimelineNext]_vars

(***************************************************************************)
(* Claims about the timeline                                               *)
(***************************************************************************)
KeyOf(i) == getPeriodKey(tCommits[i].Date, breakdownType)
KeysOfInput == {KeyOf(i) : i \in 1..Len(tCommits)}
KeyCount(k) == Cardinality({i \in 1..Len(tCommits) : KeyOf(i) = k})

RECURSIVE SumTotalCommits(_)
SumTotalCommits(ps) ==
    IF ps = <<>> THEN 0 ELSE Head(ps).TotalCommits + SumTotalCommits(Tail(ps))

\* every record is counted in exactly one of the periods ps
Partitioned(ps) ==
    /\ \A i \in 1..Len(tCommits) :
           Cardinality({j \in 1..Len(ps) : ps[j].Period = KeyOf(i)}) = 1
    /\ \A j \in 1..Len(ps) : ps[j].TotalCommits = KeyCount(ps[j].Period)
    /\ SumTotalCommits(ps) = Len(tCommits)

\* AnalyzeTimeline has ended: it returned or it panicked
TimelineEnded == tpc \in {"returned", "panic"}

\* C11: for every record sequence, every classifier configuration and every
\* granularity, AnalyzeTimeline places each record in exactly one period
\* bucket and the TotalCommits of the emitted periods sum to the number of
\* input records.
C11_PartitionComplete ==
    TimelineEnded => (tpc = "returned" /\ Partitioned(timeline[1].Periods))

\* what holds of the code: a timeline that is returned partitions the records,
\* and with at least one configured category a timeline is always returned
C11_PartitionWhenReturned ==
    /\ tpc = "returned" => Partitioned(timeline[1].Periods)
    /\ DOMAIN Vendors # {} => tpc # "panic"

\* the sum of TotalCommits over the categories of a metrics map
CategoryCommits(vm) == SumMetric(vm, DOMAIN vm, "commits")

\* C12: in every period bucket emitted by AnalyzeTimeline the TotalCommits of
\* the bucket's categories sum to the bucket's TotalCommits (and so do the
\* metrics and the counter of the bucket being folded, after every commit).
C12_BucketTotal ==
    /\ \A j \in 1..Len(breakdowns) :
           CategoryCommits(breakdowns[j].VendorMetrics) = breakdowns[j].TotalCommits
    /\ \A t \in 1..Len(timeline) : \A j \in 1..Len(timeline[t].Periods) :
           CategoryCommits(timeline[t].Periods[j].VendorMetrics)
               = timeline[t].Periods[j].TotalCommits
    /\ tpc = "loop" => CategoryCommits(periodMetrics) = totalCommits

\* a returned bucket whose commits are spread over two categories
C12_Witness ==
    /\ tpc = "returned"
    /\ \E j \in 1..Len(timeline[1].Periods) :
           LET tb == timeline[1].Periods[j]
           IN  /\ tb.TotalCommits >= 2
               /\ \E c, d \in DOMAIN tb.VendorMetrics :
                      /\ c # d
                      /\ tb.VendorMetrics[c].TotalCommits > 0
                      /\ tb.VendorMetrics[d].TotalCommits > 0

\* the keys of ps ascend strictly, and the records of an earlier period are
\* dated before the records of a later one
AscendingPeriods(ps) ==
    LET key == [i \in 1..Len(tCommits) |-> KeyOf(i)]
    IN  \A j, k \in 1..Len(ps) :
            j < k =>
                /\ StringLess(ps[j].Period, ps[k].Period)
                /\ \A a, b \in 1..Len(tCommits) :
                       (key[a] = ps[j].Period /\ key[b] = ps[k].Period) =>
                           Before(tCommits[a].Date, tCommits[b].Date)

\* C15: AnalyzeTimeline emits each distinct period key exactly once, in
\* strictly ascending lexicographic order of the keys, which is the
\* chronological order of the periods; no record yields no period.
C15_KeysAscending ==
    /\ AscendingPeriods(breakdowns)
    /\ \A j \in 1..Len(breakdowns) : breakdowns[j].Period \in KeysOfInput
    /\ tpc = "returned" =>
          /\ Len(tCommits) > 0 => timeline[1].Periods = breakdowns
          /\ {timeline[1].Periods[j].Period : j \in 1..Len(timeline[1].Periods)}
                 = KeysOfInput
          /\ Len(timeline[1].Periods) = Cardinality(KeysOfInput)
          /\ Len(tCommits) = 0 => timeline[1].Periods = <<>>

\* a returned timeline of two week periods, from records of two years handed
\* over latest first
C15_Witness ==
    /\ tpc = "returned"
    /\ breakdownType = "week"
    /\ Len(timeline[1].Periods) = 2
    /\ Before(tCommits[2].Date, tCommits[1].Date)
    /\ tCommits[2].Date.Year = 2024
    /\ tCommits[1].Date.Year = 2025

\* the value of one metric of one category of a bucket
MetricOf(tb, vendor, metric) ==
    SumMetric(tb.VendorMetrics, {vendor} \cap DOMAIN tb.VendorMetrics, metric)

\* C16: for every period bucket, category and metric in {commits, additions,
\* contributors}, GetVendorPercentage divides the category's value by the total
\* of that period only, the numerator never exceeds the denominator (a value
\* in [0, 100]), and the result is exactly 0 when the period's total for the
\* metric is 0 or the category is absent.
C16_Percentage ==
    \A n \in 1..Len(percentages) :
        LET call == percentages[n]
            tb == timeline[1].Periods[call.Period]
            total == SumMetric(tb.VendorMetrics, DOMAIN tb.VendorMetrics, call.Metric)
            absent == call.Vendor \notin DOMAIN tb.VendorMetrics
        IN  call.Metric \in {"commits", "additions", "contributors"} =>
                /\ call.Value.Den > 0
                /\ 0 <= call.Value.Num
                /\ call.Value.Num <= call.Value.Den
                /\ (total = 0 \/ absent) => call.Value.Num = 0
                /\ (total # 0 /\ ~absent) =>
                       /\ call.Value.Num = MetricOf(tb, call.Vendor, call.Metric)
                       /\ call.Value.Den = total
                /\ call.Metric = "commits" => total = tb.TotalCommits

\* a share of a period's additions taken of less than the additions of the
\* whole timeline
C16_Witness ==
    /\ Len(percentages) = 1
    /\ percentages[1].Metric = "additions"
    /\ percentages[1].Value.Num > 0
    /\ Len(timeline[1].Periods) = 2
    /\ percentages[1].Value.Den
           < SumMetric(timeline[1].Periods[1].VendorMetrics,
                       DOMAIN timeline[1].Periods[1].VendorMetrics, "additions")
             + SumMetric(timeline[1].Periods[2].VendorMetrics,
                         DOMAIN timeline[1].Periods[2].VendorMetrics, "additions")

(***************************************************************************)
(* runAnalyze: the timeline with --breakdown, the whole-repo fold without  *)
(***************************************************************************)
FoldsInit == AnalyzeInit \/ TimelineInit

FoldsNext ==
    \/ breakdownType = "" /\ AnalyzeNext
    \/ breakdownType # "" /\ TimelineNext

SpecFolds == FoldsInit /\ [][FoldsNext]_vars

\* every VendorMetrics of a map has no more contributors than commits
ContributorsWithinCommits(vm) ==
    \A c \in DOMAIN vm : ContributorCount(vm[c]) <= vm[c].TotalCommits

\* C20: after every fold step of Analyze and of AnalyzeTimeline, every
\* CategoryMetrics has no more unique contributors than total commits.
C20_ContributorsBounded ==
    /\ ContributorsWithinCommits(vendorMetrics)
    /\ \A n \in 1..Len(analyses) : ContributorsWithinCommits(analyses[n].VendorMetrics)
    /\ ContributorsWithinCommits(periodMetrics)
    /\ \A j \in 1..Len(breakdowns) : ContributorsWithinCommits(breakdowns[j].VendorMetrics)
    /\ \A t \in 1..Len(timeline) : \A j \in 1..Len(timeline[t].Periods) :
           ContributorsWithinCommits(timeline[t].Periods[j].VendorMetrics)

\* a category of the whole-repo fold with two commits of one contributor
C20_Witness ==
    /\ apc = "loop"
    /\ aIdx > 2
    /\ \E c \in DOMAIN vendorMetrics :
           /\ vendorMetrics[c].TotalCommits = 2
           /\ ContributorCount(vendorMetrics[c]) = 1

(***************************************************************************)
(* pkg/analyzer: GroupVendors and GetSortedVendors                         *)
(***************************************************************************)
others == <<"o", "t", "h", "e", "r", "s">>

\* the orders in which the names of a set can stand in a slice
Orders(names) ==
    {s \in [1..Cardinality(names) -> names] :
        \A i, j \in 1..Cardinality(names) : i # j => s[i] # s[j]}

\* the value of the metric that GetSortedVendors compares ("switch by")
SortKey(m, by) ==
    CASE by = "commits" -> m.TotalCommits
      [] by = "additions" -> m.TotalAdditions
      [] by = "contributors" -> ContributorCount(m)
      [] OTHER -> m.TotalCommits

\* the names in any order
Unsorted(vendors, names) == Orders(names)

\* sort.Slice with "vendors[i].TotalCommits > vendors[j].TotalCommits" on the
\* names in map order: the slices it can leave (sort.Slice is not stable)
SortByCommits(vendors, names) ==
    {s \in Orders(names) :
        \A i, j \in 1..Len(s) :
            i < j => vendors[s[i]].TotalCommits >= vendors[s[j]].TotalCommits}

\* &VendorGroup{...} of one category
GroupOf(name, metrics) ==
    [Name |-> name, TotalCommits |-> metrics.TotalCommits,
     TotalAdditions |-> metrics.TotalAdditions,
     TotalDeletions |-> metrics.TotalDeletions,
     UniqueContributors |-> metrics.UniqueContributors, IsGrouped |-> FALSE]

RECURSIVE SumOthers(_, _)
\* the "others" group of the named vendors (lines 91-108)
SumOthers(vendors, vendorNames) ==
    IF vendorNames = <<>>
    THEN [Name |-> others, TotalCommits |-> 0, TotalAdditions |-> 0, TotalDeletions |-> 0,
          UniqueContributors |-> {}, IsGrouped |-> TRUE]
    ELSE LET rest == SumOthers(vendors, Tail(vendorNames))
             metrics == vendors[Head(vendorNames)]
         IN  [rest EXCEPT
                 !.TotalCommits = @ + metrics.TotalCommits,
                 !.TotalAdditions = @ + metrics.TotalAdditions,
                 !.TotalDeletions = @ + metrics.TotalDeletions,
                 !.UniqueContributors = @ \cup metrics.UniqueContributors]

\* an "others" group summed over every vendor
OthersOfAll(vendors, vendorNames, from) == SumOthers(vendors, vendorNames)

\* "for i := showIndividually; i < len(vendorNames); i++", from being the
\* 1-based position of the first vendor that is not shown individually
OthersOf(vendors, vendorNames, from) ==
    SumOthers(vendors, SubSeq(vendorNames, from, Len(vendorNames)))

\* the groups that keep topN vendors in front of "others"
BuildGroupsKeepTopN(vm, n, vendorNames) ==
    LET first == IF community \in DOMAIN vm
                 THEN <<GroupOf(community, vm[community])>> ELSE <<>>
        shown == IF Len(vendorNames) <= n THEN Len(vendorNames) ELSE n
    IN  first \o [i \in 1..shown |-> GroupOf(vendorNames[i], vm[vendorNames[i]])]
              \o (IF Len(vendorNames) > shown
                  THEN <<OthersOf(vm, vendorNames, shown + 1)>> ELSE <<>>)

\* GroupVendors after the sort (lines 43-113), vendorNames being the sorted names
BuildGroups(vm, n, vendorNames) ==
    LET first == IF community \in DOMAIN vm
                 THEN <<GroupOf(community, vm[community])>> ELSE <<>>
        all == [i \in 1..Len(vendorNames) |->
                    GroupOf(vendorNames[i], vm[vendorNames[i]])]
        showIndividually == n - 1
    IN  IF Len(vendorNames) <= n THEN first \o all
        ELSE first \o SubSeq(all, 1, showIndividually)
                   \o (IF Len(vendorNames) > showIndividually
                       THEN <<OthersOf(vm, vendorNames, showIndividually + 1)>>
                       ELSE <<>>)

\* GroupVendors(vm, topN): the results a call can return
GroupVendors(vm, n) ==
    {BuildGroups(vm, n, vendorNames) :
        vendorNames \in SortByCommits(vm, DOMAIN vm \ {community})}

\* GetSortedVendors(analysis, by, reverse): the slices a call can return; the
\* comparison is "vi > vj", negated when reverse is false
GetSortedVendors(vm, by, rev) ==
    {s \in Orders(DOMAIN vm) :
        \A i, j \in 1..Len(s) :
            i < j =>
                IF rev
                THEN SortKey(vm[s[i]], by) >= SortKey(vm[s[j]], by)
                ELSE SortKey(vm[s[i]], by) <= SortKey(vm[s[j]], by)}

(***************************************************************************)
(* Inputs of the ranking helpers                                           *)
(***************************************************************************)
\* the largest topN
MaxTopN == 2

ContribX == <<"x", "@", "a", ".", "i", "o">>
ContribY == <<"y", "@", "a", ".", "i", "o">>

\* totals of a category: none, one commit, two commits with fewer additions,
\* two commits of another contributor
Totals ==
    {[TotalCommits |-> 0, TotalAdditions |-> 0, TotalDeletions |-> 0,
      UniqueContributors |-> {}],
     [TotalCommits |-> 1, TotalAdditions |-> 5, TotalDeletions |-> 1,
      UniqueContributors |-> {ContribX}],
     [TotalCommits |-> 2, TotalAdditions |-> 1, TotalDeletions |-> 0,
      UniqueContributors |-> {ContribX, ContribY}],
     [TotalCommits |-> 2, TotalAdditions |-> 3, TotalDeletions |-> 2,
      UniqueContributors |-> {ContribY}]}

MetricsWith(name, t) ==
    [NewVendorMetrics(name) EXCEPT
        !.TotalCommits = t.TotalCommits, !.TotalAdditions = t.TotalAdditions,
        !.TotalDeletions = t.TotalDeletions, !.UniqueContributors = t.UniqueContributors]

GroupInputs ==
    UNION {{[name \in names |-> MetricsWith(name, t[name])] : t \in [names -> Totals]} :
              names \in SUBSET (VendorNames \cup {community})}

GroupInit ==
    /\ gMetrics \in GroupInputs
    /\ topN \in 1..MaxTopN
    /\ sortBy \in Metrics
    /\ reverse \in BOOLEAN
    /\ groups = <<>>
    /\ sorted = <<>>
    /\ gpc = {}
    /\ ClassifyIdle
    /\ PoolIdle
    /\ LateIdle
    /\ AnalyzeIdle
    /\ PeriodIdle
    /\ TimelineIdle

\* groups := GroupVendors(vendorMetrics, topN)
CallGroupVendors ==
    /\ "GroupVendors" \notin gpc
    /\ groups' \in GroupVendors(gMetrics, topN)
    /\ gpc' = gpc \cup {"GroupVendors"}
    /\ UNCHANGED <<lateVars, gMetrics, topN, sortBy, reverse, sorted, classifyVars, poolVars,
                   analyzeVars, periodVars, timelineVars>>

\* vendors := GetSortedVendors(analysis, by, reverse)
CallGetSortedVendors ==
    /\ "GetSortedVendors" \notin gpc
    /\ sorted' \in GetSortedVendors(gMetrics, sortBy, reverse)
    /\ gpc' = gpc \cup {"GetSortedVendors"}
    /\ UNCHANGED <<lateVars, gMetrics, topN, sortBy, reverse, groups, classifyVars, poolVars,
                   analyzeVars, periodVars, timelineVars>>

GroupNext ==
    \/ CallGroupVendors
    \/ CallGetSortedVendors

SpecGroup == GroupInit /\ [][GroupNext]_vars

(***************************************************************************)
(* Claims about the ranking                                                *)
(***************************************************************************)
Grouped == "GroupVendors" \in gpc
VendorsOfInput == DOMAIN gMetrics \ {community}

\* positions of the groups of a kind
CommunityAt == {i \in 1..Len(groups) : groups[i].Name = community /\ ~groups[i].IsGrouped}
OthersAt == {i \in 1..Len(groups) : groups[i].IsGrouped}
IndividualAt == (1..Len(groups)) \ (CommunityAt \cup OthersAt)

\* C17: for every topN >= 1 GroupVendors emits at most topN non-community
\* groups: every non-community category individually when there are at most
\* topN of them, otherwise exactly topN-1 individual groups and one group
\* named "others" that is flagged as grouped; and at most one "community"
\* group.
C17_GroupCount ==
    Grouped =>
        /\ Cardinality(CommunityAt) = (IF community \in DOMAIN gMetrics THEN 1 ELSE 0)
        /\ Cardinality(IndividualAt \cup OthersAt) <= topN
        /\ \A i, j \in IndividualAt : groups[i].Name = groups[j].Name => i = j
        /\ \A i \in OthersAt : groups[i].Name = others
        /\ IF Cardinality(VendorsOfInput) <= topN
           THEN /\ {groups[i].Name : i \in IndividualAt} = VendorsOfInput
                /\ OthersAt = {}
           ELSE /\ Cardinality(IndividualAt) = topN - 1
                /\ {groups[i].Name : i \in IndividualAt} \subseteq VendorsOfInput
                /\ Cardinality(OthersAt) = 1

\* three vendors and community under topN = 2: community, one vendor, "others"
C17_Witness ==
    /\ Grouped
    /\ topN = 2
    /\ Cardinality(VendorsOfInput) = 3
    /\ Len(groups) = 3
    /\ Cardinality(CommunityAt) = 1
    /\ Cardinality(OthersAt) = 1

RECURSIVE SumOfNames(_, _, _)
\* the sum of a total over the named categories of the input
SumOfNames(names, field, vm) ==
    IF names = {} THEN 0
    ELSE LET n == CHOOSE x \in names : TRUE
         IN  vm[n][field] + SumOfNames(names \ {n}, field, vm)

RECURSIVE SumOfGroups(_)
SumOfGroups(gs) == IF gs = <<>> THEN 0 ELSE Head(gs).TotalCommits + SumOfGroups(Tail(gs))

\* the non-community categories that are not emitted individually
Collapsed == VendorsOfInput \ {groups[i].Name : i \in IndividualAt}

\* C18: the commits, additions and deletions of "others" are the sums over
\* exactly the non-community categories not emitted individually, its
\* contributor set is the union of theirs, and the total commits of the
\* emitted groups equal the total commits of the input categories.
C18_OthersTotals ==
    Grouped =>
        /\ \A i \in OthersAt :
               /\ groups[i].TotalCommits = SumOfNames(Collapsed, "TotalCommits", gMetrics)
               /\ groups[i].TotalAdditions = SumOfNames(Collapsed, "TotalAdditions", gMetrics)
               /\ groups[i].TotalDeletions = SumOfNames(Collapsed, "TotalDeletions", gMetrics)
               /\ groups[i].UniqueContributors
                      = UNION {gMetrics[n].UniqueContributors : n \in Collapsed}
        /\ OthersAt = {} => Collapsed = {}
        /\ SumOfGroups(groups) = SumOfNames(DOMAIN gMetrics, "TotalCommits", gMetrics)

\* "others" made of two categories that share a contributor
C18_Witness ==
    /\ Grouped
    /\ \E i \in OthersAt :
           /\ Cardinality(Collapsed) = 2
           /\ \E a, b \in Collapsed :
                  /\ a # b
                  /\ gMetrics[a].UniqueContributors \cap gMetrics[b].UniqueContributors # {}
           /\ Cardinality(groups[i].UniqueContributors) = 2
           /\ groups[i].TotalCommits = 4

\* community first and unflagged, "others" last
CommunityFirstOthersLast ==
    /\ community \in DOMAIN gMetrics =>
           (groups # <<>> /\ groups[1].Name = community /\ ~groups[1].IsGrouped)
    /\ \A i \in OthersAt : i = Len(groups)

\* the individual groups stand in non-increasing order of a metric
IndividualDescending(by) ==
    \A i, j \in IndividualAt :
        i < j => SortKey(gMetrics[groups[i].Name], by) >= SortKey(gMetrics[groups[j].Name], by)

BreakdownFlags == BreakdownTypes \cup {"", "day"}

\* "validBreakdowns := map[string]bool{"year": true, "quarter": true,
\*  "month": true, "week": true}; if !validBreakdowns[breakdown]"
validBreakdowns(b) == b \in {"year", "quarter", "month", "week"}

RunInit ==
    /\ Vendors \in AnalyzeConfigs
    /\ email = EmptyStr
    /\ company = EmptyStr
    /\ username = EmptyStr
    /\ returned = <<>>
    /\ \E n \in 0..MaxRecords : fetched \in [1..n -> TimelineCommits]
    /\ breakdownType \in BreakdownFlags
    /\ rpc = "fetched"
    /\ tCommits = <<>>
    /\ tpc = "idle"
    /\ periodMap = <<>>
    /\ periods = <<>>
    /\ pIdx = 0
    /\ cIdx = 0
    /\ periodMetrics = <<>>
    /\ totalCommits = 0
    /\ breakdowns = <<>>
    /\ timeline = <<>>
    /\ percentages = <<>>
    /\ PoolIdle
    /\ AnalyzeIdle
    /\ PeriodIdle
    /\ GroupIdle
    /\ FetchIdle
    /\ SpinIdle

\* "if len(commits) == 0 { fmt.Println("No commits found..."); return }"
RunNoCommits ==
    /\ rpc = "fetched"
    /\ Len(fetched) = 0
    /\ rpc' = "returned"
    /\ UNCHANGED <<fetched, fetchVars, spinVars, classifyVars, poolVars, analyzeVars, restVars>>

\* "if !validBreakdowns[breakdown] { spinner.Stop(); ...; os.Exit(1) }"
RunRejectBreakdown ==
    /\ rpc = "fetched"
    /\ Len(fetched) # 0
    /\ breakdownType # ""
    /\ ~validBreakdowns(breakdownType)
    /\ rpc' = "exit1"
    /\ UNCHANGED <<fetched, fetchVars, spinVars, classifyVars, poolVars, analyzeVars, restVars>>

\* "timeline, err := an.AnalyzeTimeline(commits, cfg, repoName, breakdown)"
RunTimeline ==
    /\ rpc = "fetched"
    /\ Len(fetched) # 0
    /\ breakdownType # ""
    /\ validBreakdowns(breakdownType)
    /\ tCommits' = fetched
    /\ rpc' = "timeline"
    /\ UNCHANGED <<fetched, fetchVars, spinVars, classifyVars, poolVars, analyzeVars, periodVars,
                   groupVars, breakdownType, tpc, periodMap, periods, pIdx, cIdx,
                   periodMetrics, totalCommits, breakdowns, timeline, percentages>>

\* "analysis, err := an.Analyze(commits, cfg, repoName)"
RunAnalysis ==
    /\ rpc = "fetched"
    /\ Len(fetched) # 0
    /\ breakdownType = ""
    /\ records' = fetched
    /\ rpc' = "analysis"
    /\ UNCHANGED <<fetched, fetchVars, spinVars, classifyVars, poolVars, restVars, folding, apc,
                   aIdx, vendorMetrics, allContributors, minDate, maxDate, classifiedAs,
                   analyses>>

RunNext ==
    \/ RunNoCommits
    \/ RunRejectBreakdown
    \/ RunTimeline
    \/ RunAnalysis
    \/ rpc = "timeline" /\ TimelineNext
    \/ rpc = "analysis" /\ AnalyzeNext

SpecRun == RunInit /\ [][RunNext]_vars

(***************************************************************************)
(* Claims about the breakdown flag                                         *)
(***************************************************************************)
\* a --breakdown value was given and it is none of the four granularities
InvalidBreakdown == breakdownType # "" /\ breakdownType \notin BreakdownTypes

\* nothing of AnalyzeTimeline has run: no commit handed over, no record put in
\* a bucket, no timeline returned
NoBucketing ==
    /\ tCommits = <<>>
    /\ tpc = "idle"
    /\ periodMap = <<>>
    /\ timeline = <<>>

\* C21: a breakdown granularity outside {year, quarter, month, week} never
\* produces a timeline: once runAnalyze has dealt with the fetched commits it has
\* ended with the fatal error (exit status 1), and no record was put in a bucket.
C21_InvalidRejected ==
    InvalidBreakdown =>
        /\ NoBucketing
        /\ rpc # "fetched" => rpc = "exit1"

\* C21, the part the code keeps: an invalid granularity never reaches
\* AnalyzeTimeline, and it is fatal whenever at least one commit was fetched.
C21_NoTimeline ==
    InvalidBreakdown =>
        /\ NoBucketing
        /\ rpc \in {"fetched", "exit1", "returned"}
        /\ rpc = "exit1" <=> (rpc # "fetched" /\ Len(fetched) # 0)

\* C21 at the level of the bucketing function: getPeriodKey gives an unknown
\* granularity the year key, and getPeriodRange gives it the zero window.
C21_KeyDefaultsToYear ==
    (pBreakdown \notin BreakdownTypes /\ pPeriod # <<>>) =>
        pPeriod = getPeriodKey(pDate, "year")


(***************************************************************************)
(* pkg/git: Fetcher.FetchCommits (part_001 lines 87-124)                   *)
(***************************************************************************)
\* the most commits in the log
MaxHistory == 2

\* "if since != nil && c.Committer.When.Before(*since) { return nil }
\*  if until != nil && c.Committer.When.After(*until) { return nil }"
KeepCommit(c, lo, hi) ==
    /\ ~(lo # Nil /\ TimeBefore(c.committer, lo))
    /\ ~(hi # Nil /\ TimeBefore(hi, c.committer))

\* "allCommits = append(allCommits, c)" over the log iterator
FilterHistory(h, lo, hi) == SelectSeq(h, LAMBDA c : KeepCommit(c, lo, hi))

Stamp(d, sec) == [Year |-> 2024, Month |-> 1, Day |-> d, Sec |-> sec]

\* the bounds as runAnalyze parses them: midnight UTC of the day given
SinceBound == Stamp(15, 0)
UntilBound == Stamp(16, 0)

\* commit times before, on and between the bounds and after them
CommitTimes == {Stamp(14, 43200), Stamp(15, 0), Stamp(15, 43200), Stamp(16, 0),
                Stamp(16, 43200)}

\* commits whose committer time is their author time, and commits that were
\* committed again after they were written (rebase, cherry-pick, amend)
LogCommits ==
    {[statsOk |-> TRUE, committer |-> t, author |-> t] : t \in CommitTimes}
    \cup {[statsOk |-> FALSE, committer |-> Stamp(15, 43200), author |-> Stamp(15, 43200)],
          [statsOk |-> TRUE, committer |-> Stamp(15, 43200), author |-> Stamp(14, 43200)],
          [statsOk |-> TRUE, committer |-> Stamp(16, 43200), author |-> Stamp(15, 43200)]}

FetchInit ==
    /\ \E n \in 0..MaxHistory :
         \E h \in [1..n -> LogCommits] :
            history = [i \in 1..n |->
                          [sha |-> i, statsOk |-> h[i].statsOk,
                           committer |-> h[i].committer, author |-> h[i].author]]
    /\ since \in {Nil, SinceBound}
    /\ until \in {Nil, UntilBound}
    /\ fpc = "call"
    /\ ClassifyIdle
    /\ PoolIdle
    /\ AnalyzeIdle
    /\ RestIdle
    /\ RunIdle
    /\ SpinIdle

\* FetchCommits up to "return f.processCommitsConcurrent(allCommits, workers)":
\* the log is walked and the commits inside the bounds are kept
FetchFilter ==
    /\ fpc = "call"
    /\ commits' = FilterHistory(history, since, until)
    /\ workersArg' = 1
    /\ taken' = [i \in 1..Len(commits') |-> <<>>]
    /\ mpc' = "call"
    /\ fpc' = "pool"
    /\ UNCHANGED <<history, since, until, runVars, spinVars, classifyVars, analyzeVars, restVars,
                   workers, jobs, jobsClosed, results, resultsClosed, wg, wpc, wjob,
                   sendI, commitData, filteredData, poolErr, collected>>

FetchNext ==
    \/ FetchFilter
    \/ fpc = "pool" /\ PoolNext

SpecFetch == FetchInit /\ [][FetchNext]_vars

(***************************************************************************)
(* Claims about the date filter                                            *)
(***************************************************************************)
FetchReturned == fpc = "pool" /\ PoolReturned

\* since <= t <= until, for the bounds that are given
WithinBounds(t) ==
    /\ since # Nil => ~TimeBefore(t, since)
    /\ until # Nil => ~TimeBefore(until, t)

ReturnedShas == {filteredData[a].SHA : a \in 1..Len(filteredData)}

\* C22: every record FetchCommits returns has its Date within the bounds given,
\* both inclusive, and every commit of the log whose Date is within the bounds
\* and whose extraction succeeds is returned.
C22_DateWithinBounds ==
    FetchReturned =>
        /\ \A a \in 1..Len(filteredData) : WithinBounds(filteredData[a].Date)
        /\ \A i \in 1..Len(history) :
              (WithinBounds(history[i].author) /\ history[i].statsOk)
                  => history[i].sha \in ReturnedShas

\* C22 read on the committer time, which is what the filter compares: the
\* commits returned are exactly the commits committed within the bounds whose
\* extraction succeeds, a commit committed at a bound included.
C22_CommitterWithinBounds ==
    FetchReturned =>
        ReturnedShas = {history[i].sha : i \in
                           {j \in 1..Len(history) :
                               WithinBounds(history[j].committer) /\ history[j].statsOk}}


(***************************************************************************)
(* Claims about the categories found while folding                         *)
(***************************************************************************)
\* auto-classification: no vendor is configured
AutoMode == Vendors = <<>>

\* the labels of the commits folded so far all have metrics (Analyze)
LabelsHaveMetrics ==
    \A k \in 1..Len(classifiedAs) : classifiedAs[k] \in DOMAIN vendorMetrics

\* C23: in auto-classification mode a label met for the first time gets its
\* CategoryMetrics created on the spot, in Analyze and in every per-period fold
\* of AnalyzeTimeline; in both the fold goes on without fault.
C23_LazyCreation ==
    AutoMode =>
        /\ LabelsHaveMetrics
        /\ tpc # "panic"

\* C23 for Analyze alone: every label folded has an entry, created when the
\* label was first met: the returned map has the configured categories and the
\* labels met.
C23_AnalyzeCreates ==
    /\ LabelsHaveMetrics
    /\ apc = "done" =>
          DOMAIN vendorMetrics =
              GetAllCategories(Vendors) \cup {classifiedAs[k] : k \in 1..Len(classifiedAs)}


(***************************************************************************)
(* Analyze as a function of its input (part_004 lines 26-81)               *)
(***************************************************************************)
RECURSIVE AnalyzeFold(_, _, _)
\* the maps the loop "for _, commit := range commits" can end with, from the map
\* vm on: one map per label Classify can return for each commit
AnalyzeFold(V, cs, vm) ==
    IF cs = <<>> THEN {vm}
    ELSE LET commit == Head(cs)
         IN  UNION {AnalyzeFold(V, Tail(cs),
                                [c \in DOMAIN vm \cup {vendor} |->
                                    IF c = vendor
                                    THEN Accumulate(IF vendor \in DOMAIN vm THEN vm[vendor]
                                                    ELSE NewVendorMetrics(vendor), commit)
                                    ELSE vm[c]]) :
                       vendor \in Classify(V, commit.AuthorEmail, EmptyStr, EmptyStr)}

\* the VendorMetrics maps Analyze can return on the commits cs
AnalyzeMetrics(V, cs) ==
    AnalyzeFold(V, cs, [c \in GetAllCategories(V) |-> NewVendorMetrics(c)])

(***************************************************************************)
(* Claims about the per-period fold against Analyze                        *)
(***************************************************************************)
\* the records of the k-th emitted period, in input order
RecordsOfPeriod(k) == periodMap[breakdowns[k].Period]

\* the totals of a metrics map, without contributors and month buckets
TotalsOf(vm) ==
    [c \in DOMAIN vm |-> <<vm[c].TotalCommits, vm[c].TotalAdditions, vm[c].TotalDeletions>>]

\* C24: the per-category metrics of every emitted period (total commits,
\* additions, deletions, contributor set keyed by email or else display name,
\* month buckets) are those Analyze produces on exactly that period's records
\* with the same classifier.
C24_SameAsAnalyze ==
    \A k \in 1..Len(breakdowns) :
        breakdowns[k].VendorMetrics \in AnalyzeMetrics(Vendors, RecordsOfPeriod(k))

\* C24 for the three totals alone: they are the totals of some run of Analyze on
\* the period's records.
C24_TotalsAsAnalyze ==
    \A k \in 1..Len(breakdowns) :
        TotalsOf(breakdowns[k].VendorMetrics)
            \in {TotalsOf(vm) : vm \in AnalyzeMetrics(Vendors, RecordsOfPeriod(k))}


(***************************************************************************)
(* Claims about the windows of the emitted periods                         *)
(***************************************************************************)
\* the window of the j-th emitted period ends before the window of the k-th
\* starts, and starts before it
WindowBefore(j, k) ==
    /\ TimeBefore(breakdowns[j].EndDate, breakdowns[k].StartDate)
    /\ TimeBefore(breakdowns[j].StartDate, breakdowns[k].StartDate)

\* C27: the [StartDate, EndDate] windows of two distinct emitted periods never
\* overlap and StartDate strictly increases along the emitted sequence, for
\* every granularity, week 53 of one ISO year and week 1 of the next included.
C27_WindowsDisjoint ==
    \A j, k \in 1..Len(breakdowns) : j < k => WindowBefore(j, k)

\* C27 for the granularities whose window does not depend on the weekday of
\* January 1: year, quarter and month windows are disjoint and ascending.
C27_CalendarWindowsDisjoint ==
    breakdownType \in {"year", "quarter", "month"} =>
        \A j, k \in 1..Len(breakdowns) : j < k => WindowBefore(j, k)


(***************************************************************************)
(* Claims about the slot array of the worker pool                          *)
(***************************************************************************)
WorkerRunning == \E w \in DOMAIN wpc : wpc[w] # "done"
SlotWritten == \E i \in 1..Len(commitData) : commitData[i] # Nil

\* C25: no result is written into the slot array while any worker is still
\* running; the writes begin only after all workers have finished.
C25_NoWriteWhileRunning == SlotWritten => ~WorkerRunning

\* C25 as the code has it: a slot is written by the coordinating thread when it
\* receives that index's result, which can be while workers still run; it holds
\* the data of a successful extraction of that commit. While a worker is still
\* running the coordinating thread is in its collect loop and has not read the
\* slot array: nothing is filtered or returned yet.
C25_SlotsReadAfterWorkers ==
    /\ \A i \in 1..Len(commitData) :
          commitData[i] # Nil =>
              /\ \E k \in 1..Len(collected) : collected[k] = i
              /\ Succeeds(i)
              /\ commitData[i] = processCommit(commits[i]).data
    /\ WorkerRunning => (mpc = "collect" /\ filteredData = <<>> /\ poolErr = "none")

C25_Witness == SlotWritten /\ WorkerRunning /\ mpc = "collect"


(***************************************************************************)
(* processCommitsConcurrent under fair scheduling                          *)
(***************************************************************************)
\* the goroutines of one call: the coordinating thread, the job sender, the
\* waiter and the workers.  The Go scheduler runs every goroutine that can take
\* a step, and every call of processCommit returns.
PoolMain == PoolStart \/ Collect \/ PoolReturn \/ RunAnalyze
PoolSender == SendJob \/ CloseJobs
PoolWaiter == CloseResults
PoolWorker(w) ==
    /\ w \in DOMAIN wpc
    /\ WorkerRecv(w) \/ WorkerProcess(w) \/ WorkerExit(w)

\* the largest number of workers a call can start
PoolWorkers == 1..(IF MaxWorkers > DefaultWorkers THEN MaxWorkers ELSE DefaultWorkers)

\* the calls with fewer commits than the longest input of SpecPool
PoolFairInit == PoolInit /\ Len(commits) < MaxCommits

SpecPoolFair ==
    /\ PoolFairInit
    /\ [][PoolNext]_vars
    /\ WF_vars(PoolMain)
    /\ WF_vars(PoolSender)
    /\ WF_vars(PoolWaiter)
    /\ \A w \in PoolWorkers : WF_vars(PoolWorker(w))

(***************************************************************************)
(* Claims about termination of the pool                                    *)
(***************************************************************************)
\* the call has returned, the sender has closed the job channel, every worker
\* has exited and the collector has drained the closed result channel
PoolTerminated ==
    /\ PoolReturned
    /\ jobsClosed
    /\ \A w \in DOMAIN wpc : wpc[w] = "done"
    /\ resultsClosed
    /\ results = <<>>

\* C26: under fair scheduling, with every extraction call returning,
\* processCommitsConcurrent terminates for every input length and every worker
\* count: the sender, the workers and the collector all finish and the call
\* returns.
C26_Terminates == <>PoolTerminated

C26_Witness ==
    /\ PoolTerminated
    /\ workersArg = 0
    /\ workers = DefaultWorkers
    /\ Len(commits) > 0
    /\ \E i \in 1..Len(commits) : ~Succeeds(i)


(***************************************************************************)
(* pkg/tui: Spinner (part_002)                                             *)
(***************************************************************************)
\* the most method calls one caller makes
MaxSpinCalls == 2

SpinMethods == {"Start", "Stop", "UpdateMessage"}

\* what a read of the message that races with a write can see: the two words of
\* a Go string are not read or written atomically
Torn == "torn"

\* Start without "s.wg.Add(1)"
AddNone(counter) == counter

\* "s.wg.Add(1)"
Add1(counter) == counter + 1

\* a Stop that does not test s.stopped
StopAgain(flag) == FALSE

\* Stop: "if s.stopped { return }"
StopIsNoOp(flag) == flag

\* Start: "if s.stopped { return }"
StartIsNoOp(flag) == flag

\* the callers that hold the mutex and have their store to s.message pending
Writers == {c \in SpinCallers : cpc[c] = "UpdateMessage.body"}

\* the values the unlocked read "s.message" on line 60 can give: the field, or,
\* when the read is concurrent with a store, the value being stored or a torn
\* string
ReadMessage ==
    {message} \cup {carg[c] : c \in Writers} \cup (IF Writers = {} THEN {} ELSE {Torn})

SpinInit ==
    /\ SpinIdle
    /\ ClassifyIdle
    /\ PoolIdle
    /\ AnalyzeIdle
    /\ RestIdle
    /\ RunIdle
    /\ FetchIdle

\* a caller, idle or back from its last call, enters one of the three methods
\* and reaches "s.mu.Lock()"
SpinCall(c) ==
    /\ cpc[c] \in {"idle", "Start.ret", "Stop.ret", "UpdateMessage.ret"}
    /\ ccalls[c] < MaxSpinCalls
    /\ \E m \in SpinMethods :
          /\ cpc' = [cpc EXCEPT ![c] = IF m = "Start" THEN "Start.lock"
                                      ELSE IF m = "Stop" THEN "Stop.lock"
                                      ELSE "UpdateMessage.lock"]
          /\ carg' = [carg EXCEPT ![c] = IF m = "UpdateMessage" THEN "b" ELSE ""]
    /\ ccalls' = [ccalls EXCEPT ![c] = @ + 1]
    /\ UNCHANGED <<message, stopChan, closes, swg, mu, stopped, anim, lastFrame,
                   stopReturned, lateFrame, runVars, fetchVars, classifyVars, poolVars,
                   analyzeVars, restVars>>

\* "s.mu.Lock()" returns
SpinLock(c) ==
    /\ cpc[c] \in {"Start.lock", "Stop.lock", "UpdateMessage.lock"}
    /\ mu = 0
    /\ mu' = c
    /\ cpc' = [cpc EXCEPT ![c] = IF @ = "Start.lock" THEN "Start.body"
                                  ELSE IF @ = "Stop.lock" THEN "Stop.body"
                                  ELSE "UpdateMessage.body"]
    /\ UNCHANGED <<message, stopChan, closes, swg, stopped, carg, ccalls, anim, lastFrame,
                   stopReturned, lateFrame, runVars, fetchVars, classifyVars, poolVars,
                   analyzeVars, restVars>>

\* Start under the mutex (lines 36-65): nothing when stopped, else wg.Add(1)
\* and the launch of one animation goroutine; then the deferred Unlock
StartBody(c) ==
    /\ cpc[c] = "Start.body"
    /\ IF StartIsNoOp(stopped)
       THEN UNCHANGED <<swg, anim>>
       ELSE /\ swg' = Add1(swg)
            /\ anim' = Append(anim, "select")
    /\ mu' = 0
    /\ cpc' = [cpc EXCEPT ![c] = "Start.ret"]
    /\ UNCHANGED <<message, stopChan, closes, stopped, carg, ccalls, lastFrame,
                   stopReturned, lateFrame, runVars, fetchVars, classifyVars, poolVars,
                   analyzeVars, restVars>>

\* Stop under the mutex (lines 72-77): return when stopped, else set the flag
\* and close the channel
StopBody(c) ==
    /\ cpc[c] = "Stop.body"
    /\ IF StopIsNoOp(stopped)
       THEN /\ mu' = 0
            /\ cpc' = [cpc EXCEPT ![c] = "Stop.ret"]
            /\ stopReturned' = TRUE
            /\ UNCHANGED <<stopped, stopChan, closes>>
       ELSE /\ stopped' = TRUE
            /\ stopChan' = "closed"
            /\ closes' = closes + 1
            /\ cpc' = [cpc EXCEPT ![c] = "Stop.wait"]
            /\ UNCHANGED <<mu, stopReturned>>
    /\ UNCHANGED <<message, swg, carg, ccalls, anim, lastFrame, lateFrame, runVars,
                   fetchVars, classifyVars, poolVars, analyzeVars, restVars>>

\* "s.wg.Wait()" returns, then the deferred Unlock (lines 78-79)
StopWait(c) ==
    /\ cpc[c] = "Stop.wait"
    /\ WaitReturns(swg)
    /\ mu' = 0
    /\ cpc' = [cpc EXCEPT ![c] = "Stop.ret"]
    /\ stopReturned' = TRUE
    /\ UNCHANGED <<message, stopChan, closes, swg, stopped, carg, ccalls, anim, lastFrame,
                   lateFrame, runVars, fetchVars, classifyVars, poolVars, analyzeVars,
                   restVars>>

\* UpdateMessage under the mutex: "s.message = message", then the deferred Unlock
UpdateBody(c) ==
    /\ cpc[c] = "UpdateMessage.body"
    /\ message' = carg[c]
    /\ mu' = 0
    /\ cpc' = [cpc EXCEPT ![c] = "UpdateMessage.ret"]
    /\ UNCHANGED <<stopChan, closes, swg, stopped, carg, ccalls, anim, lastFrame,
                   stopReturned, lateFrame, runVars, fetchVars, classifyVars, poolVars,
                   analyzeVars, restVars>>

\* animation goroutine g: select takes "case <-ticker.C" (a closed stopChan does
\* not keep select from taking a ready ticker)
AnimTick(g) ==
    /\ anim[g] = "select"
    /\ anim' = [anim EXCEPT ![g] = "frame"]
    /\ UNCHANGED <<message, stopChan, closes, swg, mu, stopped, cpc, carg, ccalls,
                   lastFrame, stopReturned, lateFrame, runVars, fetchVars, classifyVars,
                   poolVars, analyzeVars, restVars>>

\* animation goroutine g: "fmt.Fprintf(s.writer, ..., frame, reset, s.message)",
\* the message read without the mutex
AnimFrame(g) ==
    /\ anim[g] = "frame"
    /\ lastFrame' \in ReadMessage
    /\ lateFrame' = (lateFrame \/ stopReturned)
    /\ anim' = [anim EXCEPT ![g] = "select"]
    /\ UNCHANGED <<message, stopChan, closes, swg, mu, stopped, cpc, carg, ccalls,
                   stopReturned, runVars, fetchVars, classifyVars, poolVars, analyzeVars,
                   restVars>>

\* animation goroutine g: select takes "case <-s.stopChan", the line is
\* cleared and the deferred wg.Done() runs
AnimExit(g) ==
    /\ anim[g] = "select"
    /\ stopChan = "closed"
    /\ anim' = [anim EXCEPT ![g] = "done"]
    /\ swg' = swg - 1
    /\ UNCHANGED <<message, stopChan, closes, mu, stopped, cpc, carg, ccalls, lastFrame,
                   stopReturned, lateFrame, runVars, fetchVars, classifyVars, poolVars,
                   analyzeVars, restVars>>

SpinNext ==
    \/ \E c \in SpinCallers : SpinCall(c)
    \/ \E c \in SpinCallers : SpinLock(c)
    \/ \E c \in SpinCallers : StartBody(c)
    \/ \E c \in SpinCallers : StopBody(c)
    \/ \E c \in SpinCallers : StopWait(c)
    \/ \E c \in SpinCallers : UpdateBody(c)
    \/ \E g \in DOMAIN anim : AnimTick(g)
    \/ \E g \in DOMAIN anim : AnimFrame(g)
    \/ \E g \in DOMAIN anim : AnimExit(g)

SpecSpinner == SpinInit /\ [][SpinNext]_vars


\* the Go scheduler runs every goroutine that can take a step: a caller inside a
\* method goes on (sync.Mutex hands the lock to a waiter), a frame being
\* written is written, and select, which picks at random among the ready cases,
\* takes the closed stop channel sooner or later.  Nothing makes a caller start
\* another call or the ticker fire.
SpinCaller(c) == SpinLock(c) \/ StartBody(c) \/ StopBody(c) \/ StopWait(c) \/ UpdateBody(c)

\* the goroutines that can be launched: one per call
SpinGoroutines == 1..(Cardinality(SpinCallers) * MaxSpinCalls)

SpecSpinnerFair ==
    /\ SpinInit
    /\ [][SpinNext]_vars
    /\ \A c \in SpinCallers : WF_vars(SpinCaller(c))
    /\ \A g \in SpinGoroutines : WF_vars(g \in DOMAIN anim /\ AnimFrame(g))
    /\ \A g \in SpinGoroutines : SF_vars(g \in DOMAIN anim /\ AnimExit(g))

(***************************************************************************)
(* Claims about the Spinner                                                *)
(***************************************************************************)
\* C28: whatever the sequence and interleaving of Start, Stop and UpdateMessage
\* calls, the stop channel is closed at most once: once the Spinner is stopped,
\* no step closes the channel again or changes the flag (a repeated or
\* concurrent Stop is a no-op) and no step launches an animation goroutine (a
\* Start after Stop launches none).
C28_ClosedOnce ==
    [][/\ closes' <= 1
       /\ stopped' <=> (closes' = 1 /\ stopChan' = "closed")
       /\ stopped => /\ stopped'
                     /\ closes' = closes
                     /\ Len(anim') = Len(anim)
                     /\ swg' <= swg]_vars

\* both callers are back from a call on a stopped Spinner: one from a Stop, the
\* other from a Start that came after the Stop and launched nothing
C28_Witness ==
    /\ stopped
    /\ closes = 1
    /\ cpc[1] = "Stop.ret"
    /\ cpc[2] = "Start.ret"
    /\ anim = <<>>

AllExited == \A g \in DOMAIN anim : anim[g] = "done"

InStop(c) == cpc[c] \in {"Stop.lock", "Stop.body", "Stop.wait"}

\* C29: every call of Stop returns, whatever the animation goroutines and the
\* other callers do, and once a Stop has returned every animation goroutine
\* launched has exited and no frame is written any more.
C29_StopTerminates ==
    /\ [](stopReturned => (AllExited /\ ~lateFrame))
    /\ \A c \in SpinCallers : InStop(c) ~> (cpc[c] = "Stop.ret")

\* a Stop has returned after two goroutines were launched and a frame written
C29_Witness ==
    /\ stopReturned
    /\ Len(anim) = 2
    /\ AllExited
    /\ lastFrame # "none"
    /\ \E c \in SpinCallers : cpc[c] = "Stop.ret"

\* C30: every read and every write of the message field is made by a thread
\* that holds the mutex, so no UpdateMessage has its store pending while an
\* animation goroutine is at its read of the message.
C30_MessageUnderMutex ==
    /\ \A c \in Writers : mu = c
    /\ \A g \in DOMAIN anim : anim[g] = "frame" => mu = -g
    /\ ~(Writers # {} /\ \E g \in DOMAIN anim : anim[g] = "frame")

\* C30 for the writes alone: the store of UpdateMessage is made under the mutex,
\* and two stores are never pending together.
C30_WritesUnderMutex ==
    /\ \A c \in Writers : mu = c
    /\ Cardinality(Writers) <= 1

\* the race is not benign as far as the language goes: the frame can show a
\* string that is neither the old nor the new message
C30_NoTornRead == lastFrame # Torn

====
